---------------------------- MODULE Spec2Model ----------------------------
(***************************************************************************)
(* TranscriptFlow: plan catalog, usage accounting and the orchestration    *)
(* handlers of the Streamlit application, as a state machine.              *)
(*                                                                         *)
(* The relational tables are multisets of rows (the autoincrement id is    *)
(* abstracted into the multiplicity), the session is st.session_state of   *)
(* one browser session, and every external engine (Whisper, OpenAI,        *)
(* yt-dlp, MinIO, the SQL store) is an input whose outcome is chosen by    *)
(* the environment.  Time is a UTC clock in ticks; a calendar month is     *)
(* MonthLen ticks and the server's local clock is the UTC clock plus tz.   *)
(***************************************************************************)
EXTENDS Integers, Sequences, FiniteSets, TLC

VARIABLES
    tz,             \* offset of the server's local clock from UTC (ticks)
    now,            \* the UTC clock (datetime.utcnow)
    subscriptions,  \* table subscriptions, in primary-key order
    transcriptions, \* table transcriptions: row -> number of such rows
    activities,     \* table user_activities: row -> number of such rows
    st,             \* st.session_state of the browser session
    storage,        \* the StorageManager instance and what it has written
    engineCalls,    \* calls the last script run issued to each external engine
    tempFiles,      \* temporary files the last script run created
    tasks,          \* transcription tasks submitted to the Celery queue
    ytCache,        \* st.cache_data of cached_download_youtube_audio
    op,             \* the handler or function that ran last
    msg,            \* the message it showed (or returned) last
    ret,            \* the value it returned, as a record named after its kind
    quotaConsulted, \* whether it called PlanManager.check_transcription_quota
    ops,            \* number of script runs so far
    chunker,        \* a call of chunk_text: its arguments, locals and position
    race,           \* two browser sessions of one user: where each handler run is
    celery,         \* the task queue: the state of every task submitted
    users,          \* table users
    auth            \* the authentication keys of st.session_state

vars == <<tz, now, subscriptions, transcriptions, activities, st, storage,
          engineCalls, tempFiles, tasks, ytCache, op, msg, ret, quotaConsulted, ops,
          chunker, race, celery, users, auth>>

\* The variables of the parts of the program looked at on their own.
Aside == <<race, celery, users, auth>>
AsideIdle == race = <<>> /\ celery = <<>> /\ users = <<>> /\ auth = <<>>

---------------------------------------------------------------------------
(* Bounds of the model *)

MonthLen == 3
MaxTime == 2 * MonthLen      \* the clock stops at the next month's first instant
MaxOps == 2

Users == {1, 2}
TzOffsets == {-1, 0, 1}
StartTime == MonthLen + 1     \* the run starts one instant into a month, where
                              \* the clocks of all TzOffsets agree on the month

None == "None"
NoValue == [returned |-> FALSE]      \* ret when the run called no function
NoUser == 0        \* "user_id" not in st.session_state
NoAudio == -1      \* no bytes, no upload, no path
NoSubscription == [user_id |-> NoUser, plan |-> "", active |-> FALSE]

---------------------------------------------------------------------------
(* core/plan_manager.py *)

PLANS ==
    [free     |-> [name |-> "Gratuit", transcription_minutes |-> 30,
                   max_file_size_mb |-> 50, gpt_requests |-> 20,
                   models |-> <<"tiny", "base">>,
                   tts_characters |-> 10000, concurrent_tasks |-> 1],
     standard |-> [name |-> "Standard", transcription_minutes |-> 150,
                   max_file_size_mb |-> 200, gpt_requests |-> 100,
                   models |-> <<"tiny", "base", "small", "medium">>,
                   tts_characters |-> 50000, concurrent_tasks |-> 2],
     premium  |-> [name |-> "Premium", transcription_minutes |-> 500,
                   max_file_size_mb |-> 500, gpt_requests |-> 400,
                   models |-> <<"tiny", "base", "small", "medium", "large">>,
                   tts_characters |-> 200000, concurrent_tasks |-> 5]]

\* Plan names a subscriptions row may hold: the catalog's and one outside it.
PlanNames == {"free", "standard", "premium", "enterprise"}

\* db.query(Subscription).filter(user_id == u, active == True).first()
RECURSIVE FirstActive(_, _, _)
FirstActive(table, u, i) ==
    IF i > Len(table) THEN NoSubscription
    ELSE IF table[i].user_id = u /\ table[i].active THEN table[i]
    ELSE FirstActive(table, u, i + 1)

\* A get_user_plan that answers an unknown plan name with the standard plan.
get_user_plan_FallbackStandard(u) ==
    LET subscription == FirstActive(subscriptions, u, 1) IN
    IF subscription = NoSubscription THEN PLANS["free"]
    ELSE IF subscription.plan \notin DOMAIN PLANS THEN PLANS["standard"]
    ELSE PLANS[subscription.plan]

get_user_plan(u) ==
    LET subscription == FirstActive(subscriptions, u, 1) IN
    IF subscription = NoSubscription THEN PLANS["free"]
    ELSE IF subscription.plan \notin DOMAIN PLANS THEN PLANS["free"]
    ELSE PLANS[subscription.plan]

\* Number of rows of a table (row -> multiplicity) that satisfy a filter.
RECURSIVE CountRows(_, _)
CountRows(table, rows) ==
    IF rows = {} THEN 0
    ELSE LET r == CHOOSE x \in rows : TRUE
         IN table[r] + CountRows(table, rows \ {r})

\* datetime.now().replace(day=1, hour=0, ...): the local clock's month start.
start_of_month == (now + tz) - ((now + tz) % MonthLen)

\* A get_transcription_usage that counts the logged transcription activities.
get_transcription_usage_FromActivities(u) ==
    CountRows(activities,
              {r \in DOMAIN activities :
                   r.user_id = u /\ r.activity_type = "transcription"
                   /\ r.created_at >= start_of_month})

get_transcription_usage(u) ==
    CountRows(transcriptions,
              {r \in DOMAIN transcriptions :
                   r.user_id = u /\ r.created_at >= start_of_month})

\* A quota check that still admits a user at the limit, and one that admits
\* everybody.
check_transcription_quota_Inclusive(u) ==
    get_transcription_usage(u) <= get_user_plan(u).transcription_minutes

check_transcription_quota_Unlimited(u) == TRUE

check_transcription_quota(u) ==
    get_transcription_usage(u) < get_user_plan(u).transcription_minutes

\* A size check that refuses a file exactly at the cap.
check_file_size_limit_Exclusive(u, file_size_mb) ==
    file_size_mb < get_user_plan(u).max_file_size_mb

check_file_size_limit(u, file_size_mb) ==
    file_size_mb <= get_user_plan(u).max_file_size_mb

InSeq(x, s) == \E i \in 1..Len(s) : s[i] = x

\* A model check that folds the case of the name asked for.
check_model_access_CaseFold(u, model) ==
    InSeq(IF model = "Base" THEN "base" ELSE model, get_user_plan(u).models)

check_model_access(u, model) == InSeq(model, get_user_plan(u).models)

---------------------------------------------------------------------------
(* Tables *)

\* A table that keeps a single copy of equal rows.
AddRow_Set(table, r) ==
    [x \in DOMAIN table \cup {r} |-> IF x = r THEN 1 ELSE table[x]]

\* table with one more row r (db.add(r); db.commit())
AddRow(table, r) ==
    IF r \in DOMAIN table
    THEN [table EXCEPT ![r] = @ + 1]
    ELSE [x \in DOMAIN table \cup {r} |-> IF x = r THEN 1 ELSE table[x]]

NumRows(table) == CountRows(table, DOMAIN table)

---------------------------------------------------------------------------
(* core/transcription.py *)

WhisperModels == {"base", "large"}
EngineOutcomes == {"ok", "ssl_error", "file_not_found", "exception"}

\* What Whisper may hear: a short text and one longer than a summary chunk.
ShortText == "texte court"
LongText == "texte long"
WhisperTexts == {ShortText, LongText}
TextChars == [t \in WhisperTexts \cup {""} |->
                 IF t = ShortText THEN 120 ELSE IF t = LongText THEN 2600 ELSE 0]
TextWords == [t \in WhisperTexts \cup {""} |->
                 IF t = ShortText THEN 20 ELSE IF t = LongText THEN 450 ELSE 0]
SegmentsOf(text) == <<[start |-> 0, end |-> 4, text |-> text]>>

MsgNoAudioFile == "Erreur: Aucun fichier audio fourni"
MsgSSL == "Erreur SSL lors du telechargement/chargement du modele."
MsgFileNotFound == "Erreur: Fichier audio introuvable."
MsgLocalError == "Erreur lors de la transcription locale"

\* The result dictionary and whether whisper was called.  outcome is what
\* whisper.load_model / model.transcribe does: return the text heard, or raise.
transcribe_or_translate_locally(audio_file_path, outcome, heard) ==
    IF audio_file_path = ""
    THEN [error |-> MsgNoAudioFile, text |-> "", segments |-> <<>>, called |-> FALSE]
    ELSE IF outcome = "ok"
    THEN [error |-> "", text |-> heard, segments |-> SegmentsOf(heard), called |-> TRUE]
    ELSE IF outcome = "ssl_error"
    THEN [error |-> MsgSSL, text |-> "", segments |-> <<>>, called |-> TRUE]
    ELSE IF outcome = "file_not_found"
    THEN [error |-> MsgFileNotFound, text |-> "", segments |-> <<>>, called |-> TRUE]
    ELSE [error |-> MsgLocalError, text |-> "", segments |-> <<>>, called |-> TRUE]

---------------------------------------------------------------------------
(* core/storage_manager.py *)

\* save_audio_file: the manager afterwards and the reference returned.
\* put_ok: whether the MinIO put succeeds.  One temporary file is created.
save_audio_file(s, put_ok) ==
    IF s.use_minio
    THEN IF put_ok
         THEN [s |-> [s EXCEPT !.minio = @ + 1], ref |-> "audio-files"]
         ELSE [s |-> s, ref |-> None]
    ELSE IF s.has_local_dir
         THEN [s |-> [s EXCEPT !.local = @ + 1], ref |-> "audio-files"]
         ELSE [s |-> s, ref |-> None]     \* AttributeError, caught

\* save_transcription: a failed put switches the manager to local mode and
\* falls through to the local copy, which needs self.local_storage_dir.
save_transcription(s, put_ok) ==
    IF s.use_minio /\ put_ok
    THEN [s |-> [s EXCEPT !.minio = @ + 1], ref |-> "transcriptions"]
    ELSE LET s1 == [s EXCEPT !.use_minio = FALSE] IN
         IF s1.has_local_dir
         THEN [s |-> [s1 EXCEPT !.local = @ + 1], ref |-> "transcriptions"]
         ELSE [s |-> s1, ref |-> None]    \* AttributeError, caught

---------------------------------------------------------------------------
(* core/session_manager.py *)

ActivityTypes == {"transcription", "youtube_extraction", "video_extraction",
                  "tts_generation"}

\* log_user_activity: the table afterwards and the value returned.
\* store_ok: whether the store accepts the insert.
\* A log_user_activity whose insert always goes through.
log_user_activity_AlwaysStores(table, user_id, activity_type, store_ok) ==
    [table |-> AddRow(table, [user_id |-> user_id,
                              activity_type |-> activity_type,
                              created_at |-> now]),
     ret |-> TRUE]

log_user_activity(table, user_id, activity_type, store_ok) ==
    IF store_ok
    THEN [table |-> AddRow(table, [user_id |-> user_id,
                                   activity_type |-> activity_type,
                                   created_at |-> now]),
          ret |-> TRUE]
    ELSE [table |-> table, ret |-> FALSE]

---------------------------------------------------------------------------
(* my_page/transcription_4.py: the transcription functions *)

AudioSizes == {0, 50, 600, 1001}      \* MB of an upload
MicSizes == {50}                      \* MB of a microphone recording
ServerSizes == {50, 1001}             \* MB of a file on the server

MsgNoAudioData == "Aucun fichier audio fourni."
MsgDone == "Transcription terminee!"
MsgAsyncStarted == "Transcription lancee en arriere-plan. Vous pouvez suivre l'avancement ici."
MsgFileAsyncStarted == "Transcription du fichier lancee en arriere-plan."
MsgAudioSaveError == "Erreur lors de la sauvegarde du fichier audio."
MsgLaunchError == "Erreur lors du lancement de la transcription"

\* What a transcription function leaves behind: the session, the storage
\* manager, the two tables, the engine calls and temporary files it added,
\* the tasks it submitted, its (success, message) and whether it ended in
\* st.rerun(), which aborts the script run of its caller.
Outcome(s, sto, trs, acts, whisper, temps, submitted, success, message, rerun) ==
    [st |-> s, storage |-> sto, transcriptions |-> trs, activities |-> acts,
     whisper |-> whisper, temps |-> temps, submitted |-> submitted,
     success |-> success, message |-> message, rerun |-> rerun]

TranscriptionRow(user_id, whisper_model, text) ==
    [user_id |-> user_id, created_at |-> now, model_used |-> whisper_model,
     text |-> text]

\* A process_transcription_sync without the test of result["error"].
process_transcription_sync_PersistOnError(s, audio_size, whisper_model, outcome, heard, audio_put_ok, text_put_ok, db_ok, log_ok) ==
    IF audio_size = 0
    THEN Outcome(s, storage, transcriptions, activities, 0, 0, 0,
                 FALSE, MsgNoAudioData, FALSE)
    ELSE
    LET result == transcribe_or_translate_locally("tmp.wav", outcome, heard)
        saved_audio == save_audio_file(storage, audio_put_ok)
        saved_text == save_transcription(saved_audio.s, text_put_ok)
        rows == IF db_ok
                THEN AddRow(transcriptions,
                            TranscriptionRow(s.user_id, whisper_model, result.text))
                ELSE transcriptions
        session == [s EXCEPT !.transcribed_text = result.text,
                              !.segments = result.segments]
        logged == log_user_activity(activities, s.user_id, "transcription", log_ok)
    IN  Outcome(session, saved_text.s, rows, logged.table, 1, 3, 0,
                result.error = "", IF result.error = "" THEN MsgDone ELSE result.error,
                result.error = "")

process_transcription_sync(s, audio_size, whisper_model, outcome, heard, audio_put_ok, text_put_ok, db_ok, log_ok) ==
    IF audio_size = 0
    THEN Outcome(s, storage, transcriptions, activities, 0, 0, 0,
                 FALSE, MsgNoAudioData, FALSE)
    ELSE
    LET result == transcribe_or_translate_locally("tmp.wav", outcome, heard) IN
    IF result.error # ""
    THEN Outcome(s, storage, transcriptions, activities, 1, 1, 0,
                 FALSE, result.error, FALSE)
    ELSE
    LET saved_audio == save_audio_file(storage, audio_put_ok)
        saved_text == save_transcription(saved_audio.s, text_put_ok)
        rows == IF db_ok
                THEN AddRow(transcriptions,
                            TranscriptionRow(s.user_id, whisper_model, result.text))
                ELSE transcriptions
        session == [s EXCEPT !.transcribed_text = result.text,
                              !.segments = result.segments]
        logged == log_user_activity(activities, s.user_id, "transcription", log_ok)
    IN  Outcome(session, saved_text.s, rows, logged.table, 1, 3, 0,
                TRUE, MsgDone, TRUE)

process_file_transcription_sync(s, whisper_model, outcome, heard, text_put_ok, db_ok, log_ok) ==
    LET result == transcribe_or_translate_locally("server.wav", outcome, heard) IN
    IF result.error # ""
    THEN Outcome(s, storage, transcriptions, activities, 1, 0, 0,
                 FALSE, result.error, FALSE)
    ELSE
    LET saved_text == save_transcription(storage, text_put_ok)
        session == [s EXCEPT !.transcribed_text = result.text,
                              !.segments = result.segments]
        rows == IF db_ok
                THEN AddRow(transcriptions,
                            TranscriptionRow(s.user_id, whisper_model, result.text))
                ELSE transcriptions
        logged == log_user_activity(activities, s.user_id, "transcription", log_ok)
    IN  Outcome(session, saved_text.s, rows, logged.table, 1, 1, 0,
                TRUE, MsgDone, TRUE)

\* queue_ok: whether transcribe_audio_task.delay reaches the broker.
process_transcription_async(s, audio_size, audio_put_ok, queue_ok) ==
    IF audio_size = 0
    THEN Outcome(s, storage, transcriptions, activities, 0, 0, 0,
                 FALSE, MsgNoAudioData, FALSE)
    ELSE
    LET saved_audio == save_audio_file(storage, audio_put_ok) IN
    IF saved_audio.ref = None
    THEN Outcome(s, saved_audio.s, transcriptions, activities, 0, 2, 0,
                 FALSE, MsgAudioSaveError, FALSE)
    ELSE IF ~queue_ok
    THEN Outcome(s, saved_audio.s, transcriptions, activities, 0, 2, 0,
                 FALSE, MsgLaunchError, FALSE)
    ELSE Outcome([s EXCEPT !.transcription_task_id = "celery"], saved_audio.s,
                 transcriptions, activities, 0, 2, 1, TRUE, MsgAsyncStarted, FALSE)

\* The task id is made up locally; nothing is handed to the queue.
process_file_transcription_async(s) ==
    Outcome([s EXCEPT !.transcription_task_id = "local"], storage,
            transcriptions, activities, 0, 0, 0, TRUE, MsgFileAsyncStarted, FALSE)

---------------------------------------------------------------------------
(* core/gpt_processor.py *)

GptOutcomes == {"ok", "error"}
ApiKeys == {"", "sk-key"}

MsgGptNoKey == "Erreur: Cle API OpenAI manquante."
MsgGptError == "Erreur lors de l'appel a GPT"
GptAnswer == "reponse de GPT"

\* gpt_request: the string returned and the chat requests issued.
gpt_request(api_key, outcome) ==
    IF api_key = "" THEN [text |-> MsgGptNoKey, calls |-> 0]
    ELSE IF outcome = "ok" THEN [text |-> GptAnswer, calls |-> 1]
    ELSE [text |-> MsgGptError, calls |-> 1]

extract_keywords(text, api_key, outcome) ==
    IF text = "" THEN [text |-> "Erreur: Le texte est vide.", calls |-> 0]
    ELSE gpt_request(api_key, outcome)

ask_question_about_text(text, question, api_key, outcome) ==
    IF text = ""
    THEN [text |-> "Erreur: Le texte est vide, impossible de repondre.", calls |-> 0]
    ELSE IF question = ""
    THEN [text |-> "Erreur: La question est vide.", calls |-> 0]
    ELSE gpt_request(api_key, outcome)

---------------------------------------------------------------------------
(* my_page/transcription_4.py: the GPT functions *)

MsgNoTextKeywords == "Aucun texte pour extraire des mots-cles. Veuillez d'abord faire une transcription."
MsgNoTextQuestion == "Aucun texte pour poser une question. Veuillez d'abord faire une transcription."
MsgKeyRequired == "Cle API OpenAI requise pour cette fonctionnalite."
MsgKeyMissing == "Cle API OpenAI manquante. Veuillez configurer votre cle API dans le menu 'API Cles'."
MsgNoQuestion == "Veuillez saisir une question."

\* The session afterwards, the value returned, the messages shown and the
\* chat requests issued.
GptOutcome(s, success, shown, calls) ==
    [st |-> s, success |-> success, shown |-> shown, calls |-> calls]

run_gpt_keywords(s, api_key, outcome) ==
    IF s.transcribed_text = "" THEN GptOutcome(s, FALSE, <<MsgNoTextKeywords>>, 0)
    ELSE IF api_key = "" THEN GptOutcome(s, FALSE, <<MsgKeyRequired>>, 0)
    ELSE LET keywords == extract_keywords(s.transcribed_text, api_key, outcome) IN
         GptOutcome([s EXCEPT !.keywords_result = keywords.text], TRUE, <<>>,
                    keywords.calls)

run_gpt_question(s, question, api_key, outcome) ==
    IF api_key = "" THEN GptOutcome(s, FALSE, <<MsgKeyMissing>>, 0)
    ELSE IF s.transcribed_text = "" THEN GptOutcome(s, FALSE, <<MsgNoTextQuestion>>, 0)
    ELSE IF question = "" THEN GptOutcome(s, FALSE, <<MsgNoQuestion>>, 0)
    ELSE LET answer == ask_question_about_text(s.transcribed_text, question,
                                               api_key, outcome) IN
         GptOutcome([s EXCEPT !.answer_result = answer.text], TRUE, <<>>,
                    answer.calls)

\* summarize_text: one request per chunk of 2500 characters, and one more
\* that combines the partial summaries when there are several.
SummaryChunkChars == 2500

ChunkCount(chars, max_chars) == (chars + max_chars - 1) \div max_chars

summarize_text(text, api_key, chunk_outcome, combine_outcome) ==
    IF text = "" THEN [text |-> "Erreur: Le texte a resumer est vide.", calls |-> 0]
    ELSE LET n == ChunkCount(TextChars[text], SummaryChunkChars)
             part == gpt_request(api_key, chunk_outcome)
             combined == gpt_request(api_key, combine_outcome)
         IN  IF n = 1 THEN part
             ELSE [text |-> combined.text, calls |-> n * part.calls + combined.calls]

MsgNoTextSummary == "Aucun texte a resumer. Veuillez d'abord faire une transcription."

StartsWithErreur(text) ==
    text \in {MsgGptNoKey, MsgGptError, "Erreur: Le texte a resumer est vide."}

run_gpt_summary(s, api_key, chunk_outcome, combine_outcome) ==
    IF s.transcribed_text = "" THEN GptOutcome(s, FALSE, <<MsgNoTextSummary>>, 0)
    ELSE IF api_key = "" THEN GptOutcome(s, FALSE, <<MsgKeyRequired>>, 0)
    ELSE LET summary == summarize_text(s.transcribed_text, api_key,
                                       chunk_outcome, combine_outcome) IN
         IF StartsWithErreur(summary.text)
         THEN GptOutcome(s, FALSE, <<summary.text>>, summary.calls)
         ELSE GptOutcome([s EXCEPT !.summary_result = summary.text], TRUE, <<>>,
                         summary.calls)

---------------------------------------------------------------------------
(* core/utils.py *)

Chars == {"a", "b"}
MaxLen == 4
MaxChunks == MaxLen + 1
Texts == UNION {[1..n -> Chars] : n \in 0..MaxLen}
MaxCharsValues == (0 - 2)..(MaxLen + 1)

Min(a, b) == IF a < b THEN a ELSE b
Max(a, b) == IF a > b THEN a ELSE b

\* Python's index of a slice bound in a sequence of length n
SliceIndex(k, n) == IF k < 0 THEN Max(k + n, 0) ELSE Min(k, n)

\* A slice that leaves out its last character.
Slice_DropsLast(text, i, j) ==
    LET lo == SliceIndex(i, Len(text))
        hi == SliceIndex(j, Len(text)) - 1
    IN  IF lo < hi THEN SubSeq(text, lo + 1, hi) ELSE <<>>

\* text[i:j]
Slice(text, i, j) ==
    LET lo == SliceIndex(i, Len(text))
        hi == SliceIndex(j, Len(text))
    IN  IF lo < hi THEN SubSeq(text, lo + 1, hi) ELSE <<>>

\* No call of chunk_text is under way.
NoChunking ==
    [pc |-> "idle", text |-> <<>>, max_chars |-> 0, current_pos |-> 0,
     chunks |-> <<>>]

\* chunk_text(text, max_chars) entered: chunks = [], current_pos = 0
ChunkCall(text, max_chars) ==
    [pc |-> "while", text |-> text, max_chars |-> max_chars, current_pos |-> 0,
     chunks |-> <<>>]

\* chunk_text touches nothing but its locals.
ChunkFrame ==
    UNCHANGED <<tz, now, subscriptions, transcriptions, activities, st, storage,
                engineCalls, tempFiles, tasks, ytCache, op, msg, ret,
                quotaConsulted, ops, Aside>>

\* One pass of the while loop.  A loop that never ends is followed for
\* MaxChunks passes.
ChunkLoop ==
    /\ ChunkFrame
    /\ chunker.pc = "while"
    /\ chunker.current_pos < Len(chunker.text)
    /\ Len(chunker.chunks) < MaxChunks
    /\ LET chunk == Slice(chunker.text, chunker.current_pos,
                          chunker.current_pos + chunker.max_chars)
       IN  chunker' = [chunker EXCEPT
                          !.chunks = Append(@, chunk),
                          !.current_pos = @ + chunker.max_chars]

\* The loop test fails: return chunks
ChunkReturn ==
    /\ ChunkFrame
    /\ chunker.pc = "while"
    /\ ~(chunker.current_pos < Len(chunker.text))
    /\ chunker' = [chunker EXCEPT !.pc = "return"]

\* A test that opens a chapter only strictly after chunk_duration.
OpensChapter_Strict(seg_start, current_start, chunk_duration, chapter_texts) ==
    seg_start - current_start > chunk_duration /\ chapter_texts # <<>>

\* if seg_start - current_start >= chunk_duration and chapter_texts
OpensChapter(seg_start, current_start, chunk_duration, chapter_texts) ==
    seg_start - current_start >= chunk_duration /\ chapter_texts # <<>>

\* "[Chapitre i] a mm:ss => " + " ".join(chapter_texts)
Chapter(chapter_index, current_start, chapter_texts) ==
    [index |-> chapter_index, min |-> current_start \div 60,
     sec |-> current_start % 60, texts |-> chapter_texts]

\* The for loop from segment i on, with the locals as they are before it.
RECURSIVE ChapterLoop(_, _, _, _, _, _, _)
ChapterLoop(segments, chunk_duration, i, chapters, current_start, chapter_texts, chapter_index) ==
    IF i > Len(segments)
    THEN IF chapter_texts # <<>>
         THEN Append(chapters, Chapter(chapter_index, current_start, chapter_texts))
         ELSE chapters
    ELSE LET seg == segments[i] IN
         IF OpensChapter(seg.start, current_start, chunk_duration, chapter_texts)
         THEN ChapterLoop(segments, chunk_duration, i + 1,
                  Append(chapters, Chapter(chapter_index, current_start, chapter_texts)),
                  seg.start, <<seg.text>>, chapter_index + 1)
         ELSE ChapterLoop(segments, chunk_duration, i + 1, chapters,
                  current_start, Append(chapter_texts, seg.text), chapter_index)

create_chapters_from_segments(segments, chunk_duration) ==
    IF segments = <<>> THEN <<>>
    ELSE ChapterLoop(segments, chunk_duration, 1, <<>>, 0, <<>>, 1)

---------------------------------------------------------------------------
(* The state after construction *)

SubscriptionRows == [user_id : Users, plan : PlanNames, active : BOOLEAN]

\* Subscription tables of at most MaxSubs rows, in the order the query
\* returns them.
MaxSubs == 2
SubscriptionTables == UNION {[1..n -> SubscriptionRows] : n \in 0..MaxSubs}

\* initialize_session_state, after login_user stored the user's id
InitialSession(u) ==
    [user_id |-> u, transcribed_text |-> "", segments |-> <<>>,
     summary_result |-> "", keywords_result |-> "", answer_result |-> "",
     tts_audio_data |-> None, audio_bytes_for_transcription |-> NoAudio,
     server_audio_path_for_transcription |-> NoAudio,
     transcription_task_id |-> None]

\* StorageManager.__init__: MinIO reachable, or the local directory created
InitialStorage(use_minio) ==
    [use_minio |-> use_minio, has_local_dir |-> ~use_minio, minio |-> 0, local |-> 0]

Engines == {"whisper", "openai_chat", "openai_tts", "yt_dlp", "ffmpeg"}

\* Rows already in table transcriptions: n of user u made at instant t.
EmptyTable == [r \in {} |-> 0]

\* table with n more rows of user u made at instant t
WithRows(table, u, t, n) ==
    LET r == [user_id |-> u, created_at |-> t, model_used |-> "base",
              text |-> ShortText]
    IN  IF n = 0 THEN table
        ELSE [x \in DOMAIN table \cup {r} |->
                 IF x = r THEN n + (IF r \in DOMAIN table THEN table[r] ELSE 0)
                 ELSE table[x]]

---------------------------------------------------------------------------
(* my_page/transcription_4.py: afficher_page_4, desktop layout.  The mobile
   layout never reaches the transcription block: it reads audio_from_mic,
   which only the desktop branch assigns. *)

MsgQuota == "Vous avez atteint votre quota de transcription pour ce mois."
MsgSession == "Erreur de session. Veuillez vous reconnecter."
\* A page that words the missing audio as it words the quota.
MsgNoAudio_AsQuota == MsgQuota

MsgNoAudio == "Aucun audio a transcrire. Veuillez charger un fichier audio ou extraire depuis YouTube."
MsgSizeWarning == "Ce fichier depasse la limite de votre forfait. Veuillez passer a un forfait superieur."

AsyncThresholdMB == 1000

\* engineCalls and tempFiles count the calls and the temporary files of the
\* last script run.
NoCalls == [e \in Engines |-> 0]

\* The primed variables a transcription function's outcome determines.
Leaves(o) ==
    /\ storage' = o.storage
    /\ transcriptions' = o.transcriptions
    /\ activities' = o.activities
    /\ engineCalls' = [NoCalls EXCEPT !["whisper"] = o.whisper]
    /\ tempFiles' = o.temps
    /\ tasks' = tasks + o.submitted
    /\ ret' = [success |-> o.success]

NothingDone ==
    /\ engineCalls' = NoCalls
    /\ tempFiles' = 0
    /\ UNCHANGED <<storage, transcriptions, activities, tasks>>

Frame == UNCHANGED <<tz, now, subscriptions, chunker, Aside>>

\* "Utiliser ce fichier pour la transcription"
UseServerFile ==
    \E size \in ServerSizes :
        /\ st.server_audio_path_for_transcription # size
        /\ st' = [st EXCEPT !.server_audio_path_for_transcription = size]
        /\ op' = "use_server_file"
        /\ msg' = <<>>
        /\ ret' = NoValue
        /\ quotaConsulted' = FALSE
        /\ NothingDone
        /\ ops < MaxOps
        /\ ops' = ops + 1
        /\ UNCHANGED ytCache
        /\ Frame

\* What the environment does to one run of a handler: nothing, or one of its
\* calls fails (Whisper raising, a MinIO put, the Transcription insert, the
\* activity insert, the task queue).
Faults == (EngineOutcomes \ {"ok"}) \cup {"none", "put", "db", "log", "queue"}
WhisperOutcome(fault) == IF fault \in EngineOutcomes THEN fault ELSE "ok"

\* "Lancer la transcription": the block of the transcription button, after
\* the upload widget showed its size warning.
TranscribeButton ==
    \E upload \in AudioSizes \cup {NoAudio}, whisper_model \in WhisperModels,
       heard \in WhisperTexts, fault \in Faults,
       server_exists, use_async \in BOOLEAN :
    LET outcome == WhisperOutcome(fault)
        audio_put_ok == fault # "put"
        text_put_ok == fault # "put"
        db_ok == fault # "db"
        log_ok == fault # "log"
        queue_ok == fault # "queue"
        audio_data == IF upload # NoAudio THEN upload
                      ELSE st.audio_bytes_for_transcription
        server_path == st.server_audio_path_for_transcription
        warned == IF upload # NoAudio /\ st.user_id # NoUser
                     /\ ~check_file_size_limit(st.user_id, upload)
                  THEN <<MsgSizeWarning>> ELSE <<>>
    IN
    /\ ops < MaxOps
    /\ ~(audio_data = NoAudio /\ upload = NoAudio /\ server_path = NoAudio)
    /\ ops' = ops + 1
    /\ op' = "transcribe_button"
    /\ UNCHANGED ytCache
    /\ Frame
    /\ IF st.user_id = NoUser
       THEN /\ msg' = warned \o <<MsgSession>>
            /\ quotaConsulted' = FALSE
            /\ ret' = NoValue
            /\ NothingDone
            /\ UNCHANGED st
       ELSE
       /\ quotaConsulted' = TRUE
       /\ IF ~check_transcription_quota(st.user_id)
          THEN /\ msg' = warned \o <<MsgQuota>>
               /\ ret' = NoValue
               /\ NothingDone
               /\ UNCHANGED st
          ELSE
          IF server_path # NoAudio /\ server_exists
          THEN LET o == IF use_async \/ server_path > AsyncThresholdMB
                        THEN process_file_transcription_async(st)
                        ELSE process_file_transcription_sync(
                                 st, whisper_model, outcome, heard,
                                 text_put_ok, db_ok, log_ok)
               IN  /\ Leaves(o)
                   /\ msg' = warned \o <<o.message>>
                   /\ st' = IF o.success /\ ~o.rerun
                            THEN [o.st EXCEPT
                                    !.server_audio_path_for_transcription = NoAudio]
                            ELSE o.st
          ELSE IF audio_data # NoAudio /\ audio_data # 0
          THEN LET o == IF use_async \/ audio_data > AsyncThresholdMB
                        THEN process_transcription_async(
                                 st, audio_data, audio_put_ok, queue_ok)
                        ELSE process_transcription_sync(
                                 st, audio_data, whisper_model, outcome, heard,
                                 audio_put_ok, text_put_ok, db_ok, log_ok)
               IN  /\ Leaves(o)
                   /\ msg' = warned \o <<o.message>>
                   /\ st' = IF o.success /\ ~o.rerun
                            THEN [o.st EXCEPT !.audio_bytes_for_transcription = NoAudio]
                            ELSE o.st
          ELSE /\ msg' = warned \o <<MsgNoAudio>>
               /\ ret' = NoValue
               /\ NothingDone
               /\ UNCHANGED st

\* A render that finds a microphone recording in the session.
MicRecording ==
    \E audio_bytes \in MicSizes, whisper_model \in WhisperModels,
       heard \in WhisperTexts, fault \in Faults \ {"queue"} :
    LET outcome == WhisperOutcome(fault)
        audio_put_ok == fault # "put"
        text_put_ok == fault # "put"
        db_ok == fault # "db"
        log_ok == fault # "log"
        session == [st EXCEPT !.audio_bytes_for_transcription = audio_bytes] IN
    /\ ops < MaxOps
    /\ ops' = ops + 1
    /\ op' = "mic_recording"
    /\ UNCHANGED ytCache
    /\ Frame
    /\ IF st.user_id = NoUser
       THEN /\ msg' = <<MsgSession>>
            /\ quotaConsulted' = FALSE
            /\ ret' = NoValue
            /\ NothingDone
            /\ st' = session
       ELSE
       /\ quotaConsulted' = TRUE
       /\ IF ~check_transcription_quota(st.user_id)
          THEN /\ msg' = <<MsgQuota>>
               /\ ret' = NoValue
               /\ NothingDone
               /\ st' = session
          ELSE LET o == process_transcription_sync(
                            session, audio_bytes, whisper_model, outcome, heard,
                            audio_put_ok, text_put_ok, db_ok, log_ok)
               IN  /\ Leaves(o)
                   /\ msg' = <<o.message>>
                   /\ st' = o.st

\* The tabs below the transcription tab return before showing a button when
\* there is no text, fewer than 20 words or no API key.
MinWords == 20

GptTabOpen(api_key) ==
    /\ st.transcribed_text # ""
    /\ TextWords[st.transcribed_text] >= MinWords
    /\ api_key # ""

\* The primed variables a GPT function's outcome determines.
GptLeaves(name, o) ==
    /\ ops < MaxOps
    /\ ops' = ops + 1
    /\ op' = name
    /\ st' = o.st
    /\ msg' = o.shown
    /\ ret' = [success |-> o.success]
    /\ quotaConsulted' = FALSE
    /\ engineCalls' = [NoCalls EXCEPT !["openai_chat"] = o.calls]
    /\ tempFiles' = 0
    /\ UNCHANGED <<storage, transcriptions, activities, tasks, ytCache>>
    /\ Frame

\* "Generer le resume"
SummaryButton ==
    \E api_key \in ApiKeys, chunk_outcome, combine_outcome \in GptOutcomes :
        /\ GptTabOpen(api_key)
        /\ GptLeaves("run_gpt_summary",
                     run_gpt_summary(st, api_key, chunk_outcome, combine_outcome))

\* "Extraire les mots-cles"
KeywordsButton ==
    \E api_key \in ApiKeys, outcome \in GptOutcomes :
        /\ GptTabOpen(api_key)
        /\ GptLeaves("run_gpt_keywords", run_gpt_keywords(st, api_key, outcome))

\* "Poser la question"; the button is disabled while the question is blank.
QuestionButton ==
    \E api_key \in ApiKeys, outcome \in GptOutcomes :
        /\ GptTabOpen(api_key)
        /\ GptLeaves("run_gpt_question",
                     run_gpt_question(st, "question", api_key, outcome))

---------------------------------------------------------------------------
(* my_page/extraction_youtube_2.py, core/audio_extractor.py *)

Urls == {"https://youtu.be/a", "https://example.org/a"}
YoutubeDomains == {"https://youtu.be/a"}
DownloadOutcomes == {"bytes", "failure"}

MsgInvalidUrl == "Veuillez fournir une URL YouTube valide."
MsgDownloadFailed == "Echec du telechargement ou de la conversion depuis YouTube. Verifiez l'URL et reessayez."
MsgExtracted == "Audio extrait avec succes !"

validate_youtube_url(url) == url \in YoutubeDomains

\* What download_youtube_audio returns: the audio bytes, or the message
\* handle_error returns.
download_youtube_audio(outcome) ==
    IF outcome = "bytes" THEN "bytes" ELSE MsgDownloadFailed

StartsWithERROR(x) == FALSE     \* no string handle_error returns begins with "ERROR"

\* "Telecharger"
DownloadYoutube ==
    \E url \in Urls, outcome \in DownloadOutcomes, log_ok \in BOOLEAN :
    LET cached == url \in DOMAIN ytCache
        audio_bytes == IF cached THEN ytCache[url] ELSE download_youtube_audio(outcome)
        logged == log_user_activity(activities, st.user_id, "youtube_extraction", log_ok)
    IN
    /\ ops < MaxOps
    /\ ops' = ops + 1
    /\ op' = "do_download_youtube"
    /\ quotaConsulted' = FALSE
    /\ ret' = NoValue
    /\ tempFiles' = 0
    /\ UNCHANGED <<st, storage, transcriptions, tasks>>
    /\ Frame
    /\ IF ~validate_youtube_url(url)
       THEN /\ msg' = <<MsgInvalidUrl>>
            /\ engineCalls' = NoCalls
            /\ UNCHANGED <<activities, ytCache>>
       ELSE /\ ytCache' = IF cached THEN ytCache
                          ELSE [u \in DOMAIN ytCache \cup {url} |->
                                   IF u = url THEN audio_bytes ELSE ytCache[u]]
            /\ engineCalls' = IF cached THEN NoCalls
                              ELSE [NoCalls EXCEPT !["yt_dlp"] = 1]
            /\ IF audio_bytes # "bytes" /\ StartsWithERROR(audio_bytes)
               THEN /\ msg' = <<audio_bytes>>
                    /\ UNCHANGED activities
               ELSE \* handle_error has shown the failure inside
                    \* download_youtube_audio; a cached value shows nothing
                    /\ msg' = IF ~cached /\ audio_bytes # "bytes"
                              THEN <<audio_bytes, MsgExtracted>>
                              ELSE <<MsgExtracted>>
                    /\ activities' = logged.table

---------------------------------------------------------------------------
(* my_page/extract_video_3.py, core/audio_extractor.py *)

VideoSizes == {100, 600}              \* MB of an uploaded video
VideoFirstMaxMB == 4000
VideoMaxMB == 500
FfmpegOutcomes == {"ok", "failure"}

MsgVideoTooLarge == "Le fichier est trop volumineux"
MsgFfmpegFailed == "Echec de l'extraction audio. Verifiez que le format video est supporte et que ffmpeg est correctement installe."
MsgVideoError == "Une erreur est survenue pendant l'extraction audio."
MsgVideoDone == "Extraction terminee avec succes"

\* The uploader only takes the allowed extensions.
validate_video_file(size) ==
    IF size > VideoFirstMaxMB THEN FALSE
    ELSE IF size > VideoMaxMB THEN FALSE
    ELSE TRUE

\* The path of the audio file, or the message handle_error returns.
extract_audio_from_mp4(outcome) ==
    IF outcome = "ok" THEN "audio.wav" ELSE MsgFfmpegFailed

\* The audio bytes or None, what was shown, the ffmpeg runs and the temporary
\* files made.  The temporary file has a fresh name on every run, so the
\* cache of cached_extract_audio_from_mp4 never answers.
extract_audio_with_progress(size, outcome) ==
    IF ~validate_video_file(size)
    THEN [audio |-> None, shown |-> <<MsgVideoTooLarge>>, calls |-> 0, temps |-> 0]
    ELSE LET audio_path == extract_audio_from_mp4(outcome) IN
         IF audio_path # "audio.wav" /\ StartsWithERROR(audio_path)
         THEN [audio |-> None, shown |-> <<audio_path, MsgVideoError>>,
               calls |-> 1, temps |-> 1]
         ELSE IF audio_path = "audio.wav"
         THEN [audio |-> "bytes", shown |-> <<>>, calls |-> 1, temps |-> 1]
         \* open(audio_path) raises: there is no file of that name
         ELSE [audio |-> None, shown |-> <<audio_path, MsgVideoError>>,
               calls |-> 1, temps |-> 1]

\* "Extraire l'audio du fichier video"; disabled while nothing is uploaded.
ExtractVideoButton ==
    \E size \in VideoSizes, outcome \in FfmpegOutcomes :
    LET o == extract_audio_with_progress(size, outcome) IN
    /\ ops < MaxOps
    /\ ops' = ops + 1
    /\ op' = "extract_audio_with_progress"
    /\ quotaConsulted' = FALSE
    /\ ret' = NoValue
    /\ msg' = IF o.audio # None THEN o.shown \o <<MsgVideoDone>> ELSE o.shown
    /\ engineCalls' = [NoCalls EXCEPT !["ffmpeg"] = o.calls]
    /\ tempFiles' = o.temps
    /\ UNCHANGED <<st, storage, transcriptions, activities, tasks, ytCache>>
    /\ Frame

---------------------------------------------------------------------------
(* my_page/text_to_audio.py *)

TtsChars == {5, 12001}
TtsMaxChars == 12000

MsgTtsEmpty == "Le texte est vide. Veuillez saisir du texte a convertir."
MsgTtsNoKey == "Cle API OpenAI manquante. Veuillez configurer votre cle API."
MsgTtsTooLong == "Le texte est trop long."
MsgTtsDone == "Audio genere avec succes."
MsgTtsError == "Erreur lors de la generation audio. Verifiez votre cle API et reessayez."

\* (success, message), the speech requests issued and the temporary files made
generate_audio_from_text(chars, api_key, outcome) ==
    IF chars = 0 THEN [success |-> FALSE, message |-> MsgTtsEmpty, calls |-> 0, temps |-> 0]
    ELSE IF api_key = ""
    THEN [success |-> FALSE, message |-> MsgTtsNoKey, calls |-> 0, temps |-> 0]
    ELSE IF chars > TtsMaxChars
    THEN [success |-> FALSE, message |-> MsgTtsTooLong, calls |-> 0, temps |-> 0]
    ELSE IF outcome = "ok"
    THEN [success |-> TRUE, message |-> MsgTtsDone, calls |-> 1, temps |-> 1]
    ELSE [success |-> FALSE, message |-> MsgTtsError, calls |-> 1, temps |-> 1]

\* "Generer l'audio"; disabled while the text is blank or no key is set.
GenerateAudioButton ==
    \E chars \in TtsChars, outcome \in GptOutcomes :
    LET o == generate_audio_from_text(chars, "sk-key", outcome) IN
    /\ ops < MaxOps
    /\ ops' = ops + 1
    /\ op' = "generate_audio_from_text"
    /\ quotaConsulted' = FALSE
    /\ ret' = [success |-> o.success]
    /\ msg' = <<o.message>>
    /\ st' = IF o.success THEN [st EXCEPT !.tts_audio_data = "mp3"] ELSE st
    /\ engineCalls' = [NoCalls EXCEPT !["openai_tts"] = o.calls]
    /\ tempFiles' = o.temps
    /\ UNCHANGED <<storage, transcriptions, activities, tasks, ytCache>>
    /\ Frame

---------------------------------------------------------------------------
(* app.py, core/session_manager.py, the clock *)

\* PlanManager.display_user_usage in the sidebar: one read of the usage.
DisplayUserUsage ==
    /\ st.user_id # NoUser
    /\ op' = "display_user_usage"
    /\ ret' = [usage |-> get_transcription_usage(st.user_id)]
    /\ msg' = <<>>
    /\ quotaConsulted' = FALSE
    /\ NothingDone
    /\ ops < MaxOps
    /\ ops' = ops + 1
    /\ UNCHANGED <<st, ytCache>>
    /\ Frame

\* One call of log_user_activity for a transcription.
LogUserActivity ==
    \E u \in Users, log_ok \in BOOLEAN :
    LET logged == log_user_activity(activities, u, "transcription", log_ok) IN
    /\ ops < MaxOps
    /\ ops' = ops + 1
    /\ op' = "log_user_activity"
    /\ ret' = [success |-> logged.ret]
    /\ activities' = logged.table
    /\ msg' = <<>>
    /\ quotaConsulted' = FALSE
    /\ engineCalls' = NoCalls
    /\ tempFiles' = 0
    /\ UNCHANGED <<st, storage, transcriptions, tasks, ytCache>>
    /\ Frame

Tick ==
    /\ now < MaxTime
    /\ now' = now + 1
    /\ UNCHANGED <<tz, subscriptions, transcriptions, activities, st, storage,
                   engineCalls, tempFiles, tasks, ytCache, op, msg, ret,
                   quotaConsulted, ops, chunker, Aside>>

---------------------------------------------------------------------------
(* The application *)

\* One plan per session user: no subscription, or one active row.
SessionUser == 1
OtherUser == 2

InitialSubscriptions ==
    {<< >>} \cup {<<[user_id |-> SessionUser, plan |-> p, active |-> TRUE]>> :
                     p \in {"standard"}}

\* The session user's rows of this month: one short of the limit, the limit.
InitialCounts(limit) == {limit - 1, limit}

Init ==
    /\ tz \in TzOffsets
    /\ now = StartTime
    /\ subscriptions \in InitialSubscriptions
    /\ \E n \in InitialCounts(get_user_plan(SessionUser).transcription_minutes) :
          transcriptions =
              WithRows(WithRows(WithRows(EmptyTable, SessionUser, StartTime, n),
                                SessionUser, 1, 1),
                       OtherUser, StartTime, 1)
    /\ activities = EmptyTable
    /\ st = InitialSession(SessionUser)
    /\ storage \in {InitialStorage(m) : m \in BOOLEAN}
    /\ engineCalls = NoCalls
    /\ tempFiles = 0
    /\ tasks = 0
    /\ ytCache = [u \in {} |-> ""]
    /\ op = "init"
    /\ msg = <<>>
    /\ ret = NoValue
    /\ quotaConsulted = FALSE
    /\ ops = 0
    /\ chunker = NoChunking
    /\ AsideIdle

Next ==
    \/ UseServerFile
    \/ TranscribeButton
    \/ MicRecording
    \/ SummaryButton
    \/ KeywordsButton
    \/ QuestionButton
    \/ DownloadYoutube
    \/ ExtractVideoButton
    \/ GenerateAudioButton
    \/ DisplayUserUsage
    \/ LogUserActivity
    \/ Tick

Spec == Init /\ [][Next]_vars

---------------------------------------------------------------------------
(* PlanManager's functions on their own, over every subscriptions table of
   the bound and row counts around every plan's limit *)

Limits == {PLANS[p].transcription_minutes : p \in DOMAIN PLANS}
PlanCounts == {0} \cup UNION {{l - 1, l, l + 1} : l \in Limits}

InitPlan ==
    /\ tz \in TzOffsets
    /\ now = StartTime
    /\ subscriptions \in SubscriptionTables
    /\ \E n \in PlanCounts :
          transcriptions =
              WithRows(WithRows(WithRows(EmptyTable, SessionUser, StartTime, n),
                                SessionUser, 1, 1),
                       OtherUser, StartTime, 1)
    /\ activities = EmptyTable
    /\ st = InitialSession(SessionUser)
    /\ storage = InitialStorage(TRUE)
    /\ engineCalls = NoCalls
    /\ tempFiles = 0
    /\ tasks = 0
    /\ ytCache = [u \in {} |-> ""]
    /\ op = "init"
    /\ msg = <<>>
    /\ ret = NoValue
    /\ quotaConsulted = FALSE
    /\ ops = 0
    /\ chunker = NoChunking
    /\ AsideIdle

\* One call of a function that only reads: its argument and its value are
\* kept in ret.  The functions are pure, so one call from each initial state
\* shows every value they return.
PlanCall(name, result) ==
    /\ op = "init"
    /\ op' = name
    /\ ret' = result
    /\ UNCHANGED <<tz, now, subscriptions, transcriptions, activities, st,
                   storage, engineCalls, tempFiles, tasks, ytCache, msg,
                   quotaConsulted, ops, chunker, Aside>>

CallGetUserPlan ==
    \E u \in Users : PlanCall("get_user_plan", [user_id |-> u, plan |-> get_user_plan(u)])

CallGetTranscriptionUsage ==
    \E u \in Users :
        PlanCall("get_transcription_usage",
                 [user_id |-> u, usage |-> get_transcription_usage(u)])

CallCheckTranscriptionQuota ==
    \E u \in Users :
        PlanCall("check_transcription_quota",
                 [user_id |-> u, quota |-> check_transcription_quota(u)])

\* Sizes in MB around every plan's cap.
Caps == {PLANS[p].max_file_size_mb : p \in DOMAIN PLANS}
FileSizes == {0} \cup UNION {{c - 1, c, c + 1} : c \in Caps}

CallCheckFileSizeLimit ==
    \E u \in Users, file_size_mb \in FileSizes :
        PlanCall("check_file_size_limit",
                 [user_id |-> u, file_size_mb |-> file_size_mb,
                  allowed |-> check_file_size_limit(u, file_size_mb)])

\* The names of the catalog, one in another case and one of no plan.
ModelNames == {"tiny", "base", "small", "medium", "large", "Base", "turbo"}

CallCheckModelAccess ==
    \E u \in Users, model \in ModelNames :
        PlanCall("check_model_access",
                 [user_id |-> u, model |-> model,
                  allowed |-> check_model_access(u, model)])

NextPlan ==
    \/ CallGetUserPlan
    \/ CallGetTranscriptionUsage
    \/ CallCheckTranscriptionQuota
    \/ CallCheckFileSizeLimit
    \/ CallCheckModelAccess

SpecPlan == InitPlan /\ [][NextPlan]_vars

---------------------------------------------------------------------------
(* chunk_text on its own, over every text of at most MaxLen characters and
   every max_chars of MaxCharsValues *)

InitChunk ==
    /\ tz = 0
    /\ now = StartTime
    /\ subscriptions = <<>>
    /\ transcriptions = EmptyTable
    /\ activities = EmptyTable
    /\ st = InitialSession(SessionUser)
    /\ storage = InitialStorage(TRUE)
    /\ engineCalls = NoCalls
    /\ tempFiles = 0
    /\ tasks = 0
    /\ ytCache = [u \in {} |-> ""]
    /\ op = "chunk_text"
    /\ msg = <<>>
    /\ ret = NoValue
    /\ quotaConsulted = FALSE
    /\ ops = 0
    /\ \E text \in Texts, max_chars \in MaxCharsValues :
          chunker = ChunkCall(text, max_chars)
    /\ AsideIdle

NextChunk ==
    \/ ChunkLoop
    \/ ChunkReturn

\* The interpreter keeps running the call.
SpecChunk == InitChunk /\ [][NextChunk]_vars /\ WF_vars(NextChunk)

---------------------------------------------------------------------------
(* The functions of core/utils.py and core/gpt_processor.py that only
   compute, each called once with every argument of the bounds *)

MaxSegments == 3
SegmentStarts == {0, 30, 60, 70, 130}
ChunkDurations == {30, 60, 90}

\* Segment lists as Whisper numbers them; any order of the start times.
SegmentLists ==
    UNION {{[i \in 1..n |-> [start |-> starts[i], end |-> starts[i] + 10,
                              text |-> i]] :
               starts \in [1..n -> SegmentStarts]} : n \in 0..MaxSegments}

InitCalls ==
    /\ tz = 0
    /\ now = StartTime
    /\ subscriptions = <<>>
    /\ transcriptions = EmptyTable
    /\ activities = EmptyTable
    /\ st = InitialSession(SessionUser)
    /\ storage = InitialStorage(TRUE)
    /\ engineCalls = NoCalls
    /\ tempFiles = 0
    /\ tasks = 0
    /\ ytCache = [u \in {} |-> ""]
    /\ op = "init"
    /\ msg = <<>>
    /\ ret = NoValue
    /\ quotaConsulted = FALSE
    /\ ops = 0
    /\ chunker = NoChunking
    /\ AsideIdle

CallCreateChapters ==
    \E segments \in SegmentLists, chunk_duration \in ChunkDurations :
        PlanCall("create_chapters_from_segments",
                 [segments |-> segments, chunk_duration |-> chunk_duration,
                  chapters |-> create_chapters_from_segments(segments, chunk_duration)])

\* extract_keywords has no raise statement and gpt_request catches every
\* exception: the call always returns.
CallExtractKeywords ==
    \E text \in {"", ShortText, LongText}, api_key \in ApiKeys,
       outcome \in GptOutcomes :
        LET keywords == extract_keywords(text, api_key, outcome) IN
        PlanCall("extract_keywords",
                 [text |-> text, api_key |-> api_key, outcome |-> outcome,
                  raised |-> None, returned |-> keywords.text,
                  calls |-> keywords.calls])

NextCalls ==
    \/ CallCreateChapters
    \/ CallExtractKeywords

SpecCalls == InitCalls /\ [][NextCalls]_vars

---------------------------------------------------------------------------
(* Two browser sessions of the session user, each running the transcription
   block of afficher_page_4 with process_transcription_sync in a script
   thread of its own.  The threads share the database; every query and every
   commit is one step. *)

Sessions == {"s1", "s2"}
MaxPresses == 2

\* A session that has not pressed the button yet.
IdleSession == [pc |-> "idle", whisper_model |-> "base", text |-> "", presses |-> 0]

RaceFrame ==
    UNCHANGED <<tz, now, subscriptions, st, engineCalls, tempFiles, tasks,
                ytCache, op, msg, ret, quotaConsulted, ops, chunker, celery,
                users, auth>>

\* "Lancer la transcription": the quota query of check_transcription_quota
RaceCheckQuota(s) ==
    /\ race[s].pc = "idle"
    /\ race[s].presses < MaxPresses
    /\ \E whisper_model \in WhisperModels :
          race' = [race EXCEPT
                     ![s].presses = @ + 1,
                     ![s].whisper_model = whisper_model,
                     ![s].pc = IF check_transcription_quota(st.user_id)
                               THEN "whisper" ELSE "idle"]
    /\ UNCHANGED <<transcriptions, activities, storage>>
    /\ RaceFrame

\* transcribe_or_translate_locally and the test of result["error"]
RaceWhisper(s) ==
    /\ race[s].pc = "whisper"
    /\ \E outcome \in EngineOutcomes, heard \in WhisperTexts :
          LET result == transcribe_or_translate_locally("tmp.wav", outcome, heard) IN
          race' = [race EXCEPT
                     ![s].text = result.text,
                     ![s].pc = IF result.error # "" THEN "idle" ELSE "save"]
    /\ UNCHANGED <<transcriptions, activities, storage>>
    /\ RaceFrame

\* storage_manager.save_audio_file and save_transcription
RaceSave(s) ==
    /\ race[s].pc = "save"
    /\ \E audio_put_ok, text_put_ok \in BOOLEAN :
          storage' = save_transcription(save_audio_file(storage, audio_put_ok).s,
                                        text_put_ok).s
    /\ race' = [race EXCEPT ![s].pc = "insert"]
    /\ UNCHANGED <<transcriptions, activities>>
    /\ RaceFrame

\* db.add(new_transcription); db.commit()
RaceInsert(s) ==
    /\ race[s].pc = "insert"
    /\ \E db_ok \in BOOLEAN :
          transcriptions' =
              IF db_ok
              THEN AddRow(transcriptions,
                          TranscriptionRow(st.user_id, race[s].whisper_model,
                                           race[s].text))
              ELSE transcriptions
    /\ race' = [race EXCEPT ![s].pc = "log"]
    /\ UNCHANGED <<activities, storage>>
    /\ RaceFrame

\* log_user_activity, then st.rerun()
RaceLog(s) ==
    /\ race[s].pc = "log"
    /\ \E log_ok \in BOOLEAN :
          activities' = log_user_activity(activities, st.user_id, "transcription",
                                          log_ok).table
    /\ race' = [race EXCEPT ![s].pc = "idle"]
    /\ UNCHANGED <<transcriptions, storage>>
    /\ RaceFrame

InitRace ==
    /\ tz = 0
    /\ now = StartTime
    /\ subscriptions \in InitialSubscriptions
    /\ \E n \in InitialCounts(get_user_plan(SessionUser).transcription_minutes) :
          transcriptions = WithRows(EmptyTable, SessionUser, StartTime, n)
    /\ activities = EmptyTable
    /\ st = InitialSession(SessionUser)
    /\ storage \in {InitialStorage(m) : m \in BOOLEAN}
    /\ engineCalls = NoCalls
    /\ tempFiles = 0
    /\ tasks = 0
    /\ ytCache = [u \in {} |-> ""]
    /\ op = "init"
    /\ msg = <<>>
    /\ ret = NoValue
    /\ quotaConsulted = FALSE
    /\ ops = 0
    /\ chunker = NoChunking
    /\ race = [s \in Sessions |-> IdleSession]
    /\ celery = <<>>
    /\ users = <<>>
    /\ auth = <<>>

NextRace ==
    \/ \E s \in Sessions : RaceCheckQuota(s)
    \/ \E s \in Sessions : RaceWhisper(s)
    \/ \E s \in Sessions : RaceSave(s)
    \/ \E s \in Sessions : RaceInsert(s)
    \/ \E s \in Sessions : RaceLog(s)

SpecRace == InitRace /\ [][NextRace]_vars

---------------------------------------------------------------------------
(* The asynchronous path: the page submits a task, the queue's worker runs
   it, and every script run of afficher_page_4 ends with the poll of the task
   id the session holds.  core/task_queue.py is the external task queue;
   the worker follows its contract: a submitted task is pending, may be
   started, and ends in success with a payload or in failure. *)

MaxTasks == 2
TaskId(n) == IF n = 1 THEN "task1" ELSE "task2"
LocalTaskId == "local"
NoResult == [text |-> ""]
PendingTask == [status |-> "PENDING", result |-> NoResult]
NotPolled == [task_id |-> None, status |-> None]

\* AsyncResult(task_id).status and .result; an id the queue does not know
\* is reported as pending.
check_transcription_status(queue, task_id) ==
    IF task_id \in DOMAIN queue THEN queue[task_id] ELSE PendingTask

\* A poll that applies the result and keeps the task id.
PollTask_KeepsId(s, queue, clear_clicked) ==
    IF s.transcription_task_id = None THEN s
    ELSE LET polled == check_transcription_status(queue, s.transcription_task_id) IN
         IF polled.status = "SUCCESS"
         THEN [s EXCEPT !.transcribed_text = polled.result.text]
         ELSE IF polled.status = "FAILURE" /\ clear_clicked
         THEN [s EXCEPT !.transcription_task_id = None]
         ELSE s

\* "Verifier le statut des taches en cours": the session the poll leaves.
\* clear_clicked: "Effacer la tache" was pressed on the failure notice.
PollTask(s, queue, clear_clicked) ==
    IF s.transcription_task_id = None THEN s
    ELSE LET polled == check_transcription_status(queue, s.transcription_task_id) IN
         IF polled.status = "SUCCESS"
         THEN [s EXCEPT !.transcribed_text = polled.result.text,
                        !.transcription_task_id = None]
         ELSE IF polled.status = "FAILURE" /\ clear_clicked
         THEN [s EXCEPT !.transcription_task_id = None]
         ELSE s

\* The task id and the status a script run polled.
Observed(s, queue) ==
    IF s.transcription_task_id = None THEN NotPolled
    ELSE [task_id |-> s.transcription_task_id,
          status |-> check_transcription_status(queue, s.transcription_task_id).status]

AsyncFrame ==
    UNCHANGED <<tz, now, subscriptions, transcriptions, activities, engineCalls,
                tempFiles, ytCache, quotaConsulted, chunker, race, users, auth>>

\* A script run with no button pressed.
Render ==
    /\ st' = PollTask(st, celery, FALSE)
    /\ ret' = Observed(st, celery)
    /\ op' = "render"
    /\ msg' = <<>>
    /\ UNCHANGED <<celery, tasks, storage, ops>>
    /\ AsyncFrame

\* "Effacer la tache", shown while the polled task has failed.
ClearTask ==
    /\ st.transcription_task_id # None
    /\ check_transcription_status(celery, st.transcription_task_id).status = "FAILURE"
    /\ st' = PollTask(st, celery, TRUE)
    /\ ret' = Observed(st, celery)
    /\ op' = "clear_task"
    /\ msg' = <<>>
    /\ UNCHANGED <<celery, tasks, storage, ops>>
    /\ AsyncFrame

\* "Lancer la transcription" with an uploaded file and the asynchronous
\* box ticked; request_transcription returns the id of the new task.
AsyncButton ==
    \E upload \in AudioSizes, fault \in {"none", "put", "queue"} :
    LET o == process_transcription_async(st, upload, fault # "put", fault # "queue")
        task_id == TaskId(tasks + 1)
        session == IF o.submitted = 1
                   THEN [o.st EXCEPT !.transcription_task_id = task_id,
                                     !.audio_bytes_for_transcription = NoAudio]
                   ELSE o.st
        queue == IF o.submitted = 1 THEN celery @@ (task_id :> PendingTask)
                 ELSE celery
    IN
    /\ ops < MaxTasks
    /\ ops' = ops + 1
    /\ st.server_audio_path_for_transcription = NoAudio
    /\ op' = "async_button"
    /\ AsyncFrame
    /\ IF ~check_transcription_quota(st.user_id)
       THEN /\ msg' = <<MsgQuota>>
            /\ st' = PollTask(st, celery, FALSE)
            /\ ret' = Observed(st, celery)
            /\ UNCHANGED <<celery, tasks, storage>>
       ELSE /\ msg' = <<o.message>>
            /\ celery' = queue
            /\ tasks' = tasks + o.submitted
            /\ storage' = o.storage
            /\ st' = PollTask(session, queue, FALSE)
            /\ ret' = Observed(session, queue)

\* "Lancer la transcription" with a file of the server chosen and the
\* asynchronous path taken.
FileAsyncButton ==
    LET o == process_file_transcription_async(st)
        session == [o.st EXCEPT
                      !.transcription_task_id = LocalTaskId,
                      !.server_audio_path_for_transcription = NoAudio]
    IN
    /\ st.server_audio_path_for_transcription # NoAudio
    /\ op' = "file_async_button"
    /\ UNCHANGED <<celery, tasks, storage, ops>>
    /\ AsyncFrame
    /\ IF ~check_transcription_quota(st.user_id)
       THEN /\ msg' = <<MsgQuota>>
            /\ st' = PollTask(st, celery, FALSE)
            /\ ret' = Observed(st, celery)
       ELSE /\ msg' = <<o.message>>
            /\ st' = PollTask(session, celery, FALSE)
            /\ ret' = Observed(session, celery)

\* The worker takes a pending task.
WorkerStart(t) ==
    /\ t \in DOMAIN celery
    /\ celery[t].status = "PENDING"
    /\ celery' = [celery EXCEPT ![t].status = "STARTED"]
    /\ op' = "worker"
    /\ UNCHANGED <<st, ret, msg, tasks, storage, ops>>
    /\ AsyncFrame

\* The worker ends a task: Whisper's text, or a failure.
WorkerFinish(t) ==
    /\ t \in DOMAIN celery
    /\ celery[t].status \in {"PENDING", "STARTED"}
    /\ \E heard \in WhisperTexts, status \in {"SUCCESS", "FAILURE"} :
          celery' = [celery EXCEPT
                       ![t] = [status |-> status,
                               result |-> IF status = "SUCCESS"
                                          THEN [text |-> heard] ELSE NoResult]]
    /\ op' = "worker"
    /\ UNCHANGED <<st, ret, msg, tasks, storage, ops>>
    /\ AsyncFrame

InitAsync ==
    /\ tz = 0
    /\ now = StartTime
    /\ subscriptions \in InitialSubscriptions
    /\ \E n \in InitialCounts(get_user_plan(SessionUser).transcription_minutes) :
          transcriptions = WithRows(EmptyTable, SessionUser, StartTime, n)
    /\ activities = EmptyTable
    /\ \E path \in ServerSizes \cup {NoAudio} :
          st = [InitialSession(SessionUser) EXCEPT
                  !.server_audio_path_for_transcription = path]
    /\ storage \in {InitialStorage(m) : m \in BOOLEAN}
    /\ engineCalls = NoCalls
    /\ tempFiles = 0
    /\ tasks = 0
    /\ ytCache = [u \in {} |-> ""]
    /\ op = "init"
    /\ msg = <<>>
    /\ ret = NotPolled
    /\ quotaConsulted = FALSE
    /\ ops = 0
    /\ chunker = NoChunking
    /\ race = <<>>
    /\ celery = <<>>
    /\ users = <<>>
    /\ auth = <<>>

NextAsync ==
    \/ Render
    \/ ClearTask
    \/ AsyncButton
    \/ FileAsyncButton
    \/ \E n \in 1..MaxTasks : WorkerStart(TaskId(n))
    \/ \E n \in 1..MaxTasks : WorkerFinish(TaskId(n))

\* Every script run is followed by another, and the worker ends every task
\* it was given.
SpecAsync ==
    /\ InitAsync
    /\ [][NextAsync]_vars
    /\ WF_vars(Render)
    /\ \A n \in 1..MaxTasks : WF_vars(WorkerFinish(TaskId(n)))

---------------------------------------------------------------------------
(* core/auth_manager.py, script/init_db.py and the session keys of
   core/session_manager.py: the users table and one browser session *)

MaxUsers == 2
TokenLife == 1         \* ACCESS_TOKEN_EXPIRE_MINUTES, in instants of the clock
NoLogin == 0           \* last_login of a user who never logged in

Usernames == {"ann", "bob"}
Emails == {"a@x", "b@x"}
Passwords == {"pw1", "pw2"}
FirstNames == {"Ann"}
Salts == {1, 2}

SessionKeys == {"token", "user_id", "username", "is_admin", "authenticated"}

\* bcrypt.hashpw: the salt, and a digest of the salt and the password
hashpw(password, salt) == [salt |-> salt, digest |-> <<"bcrypt", salt, password>>]
get_password_hash(password, salt) == hashpw(password, salt)

\* bcrypt.checkpw hashes the plain password with the salt of the stored hash
verify_password(plain_password, hashed_password) ==
    hashpw(plain_password, hashed_password.salt) = hashed_password

\* .first() of a query on the users table: the index of the row, 0 for None
FirstOf(indices) ==
    IF indices = {} THEN 0 ELSE CHOOSE i \in indices : \A j \in indices : i <= j
ByUsername(table, username) ==
    FirstOf({i \in 1..Len(table) : table[i].username = username})
ByUsernameOrEmail(table, username, email) ==
    FirstOf({i \in 1..Len(table) :
                table[i].username = username \/ table[i].email = email})
ById(table, user_id) ==
    FirstOf({i \in 1..Len(table) : table[i].id = user_id})

UserRow(table, email, username, hashed_password, is_admin) ==
    [id |-> Len(table) + 1, email |-> email, username |-> username,
     hashed_password |-> hashed_password, is_admin |-> is_admin,
     last_login |-> NoLogin]

\* A users table without its unique indexes.
db_add_user_NoUniqueIndex(table, row) ==
    [users |-> Append(table, row), raised |-> FALSE]

\* db.add(user); db.commit(): the unique indexes of users.email and
\* users.username make the commit raise and store nothing.
db_add_user(table, row) ==
    IF \E i \in 1..Len(table) :
          table[i].username = row.username \/ table[i].email = row.email
    THEN [users |-> table, raised |-> TRUE]
    ELSE [users |-> Append(table, row), raised |-> FALSE]

authenticate_user(table, username, password) ==
    LET i == ByUsername(table, username) IN
    IF i = 0 THEN 0
    ELSE IF ~verify_password(password, table[i].hashed_password) THEN 0
    ELSE i

create_access_token(sub) == [sub |-> sub, exp |-> now + TokenLife]

\* jwt.decode: the signature is the decoding process's, and exp is ahead
jwt_decode_ok(token, decodable) == decodable /\ token.exp > now

Without(session, keys) == [k \in DOMAIN session \ keys |-> session[k]]

initialize_session_state(session) ==
    IF "authenticated" \in DOMAIN session THEN session
    ELSE session @@ ("authenticated" :> FALSE)

\* "Se connecter"
login_user(session, table, username, password) ==
    IF username = "" \/ password = ""
    THEN [auth |-> session, users |-> table, result |-> FALSE]
    ELSE LET i == authenticate_user(table, username, password) IN
         IF i = 0
         THEN [auth |-> session, users |-> table, result |-> FALSE]
         ELSE [auth |-> ("token" :> create_access_token(table[i].username))
                        @@ ("user_id" :> table[i].id)
                        @@ ("username" :> table[i].username)
                        @@ ("is_admin" :> table[i].is_admin)
                        @@ ("authenticated" :> TRUE)
                        @@ session,
               users |-> [table EXCEPT ![i].last_login = now],
               result |-> TRUE]

\* A logout that forgets to delete the token and the user's id.
logout_user_KeepsToken(session) == Without(session, {"authenticated"})

\* "Deconnexion"
logout_user(session) == Without(session, SessionKeys)

check_auth_token_validity(session, decodable) ==
    IF "token" \notin DOMAIN session THEN FALSE
    ELSE jwt_decode_ok(session["token"], decodable)

refresh_session_if_needed(session, decodable) ==
    IF ~check_auth_token_validity(session, decodable)
    THEN Without(session, SessionKeys)
    ELSE session

\* "S'inscrire"
register_user(table, email, username, first_name, password, password_confirm, salt) ==
    IF "" \in {email, username, first_name, password, password_confirm}
    THEN [users |-> table, result |-> FALSE, reason |-> "missing"]
    ELSE IF password # password_confirm
    THEN [users |-> table, result |-> FALSE, reason |-> "mismatch"]
    ELSE IF ByUsernameOrEmail(table, username, email) # 0
    THEN [users |-> table, result |-> FALSE, reason |-> "exists"]
    ELSE [users |-> db_add_user(table,
                       UserRow(table, email, username,
                               get_password_hash(password, salt), FALSE)).users,
          result |-> TRUE, reason |-> "created"]

\* init_db.py --create-admin
create_admin_user(table, username, password, email, salt) ==
    IF ByUsername(table, username) # 0
    THEN [users |-> table, result |-> FALSE, reason |-> "exists"]
    ELSE LET added == db_add_user(table,
                          UserRow(table, email, username,
                                  get_password_hash(password, salt), TRUE))
         IN  [users |-> added.users, result |-> ~added.raised,
              reason |-> IF added.raised THEN "raised" ELSE "created"]

\* A change_password that does not ask for the current password.
change_password_Unverified(table, user_id, current_password, new_password, salt) ==
    LET i == ById(table, user_id) IN
    IF i = 0 THEN [users |-> table, result |-> FALSE]
    ELSE [users |-> [table EXCEPT
                       ![i].hashed_password = get_password_hash(new_password, salt)],
          result |-> TRUE]

change_password(table, user_id, current_password, new_password, salt) ==
    LET i == ById(table, user_id) IN
    IF i = 0 THEN [users |-> table, result |-> FALSE]
    ELSE IF ~verify_password(current_password, table[i].hashed_password)
    THEN [users |-> table, result |-> FALSE]
    ELSE [users |-> [table EXCEPT
                       ![i].hashed_password = get_password_hash(new_password, salt)],
          result |-> TRUE]

AuthFrame ==
    UNCHANGED <<tz, now, subscriptions, transcriptions, activities, st, storage,
                engineCalls, tempFiles, tasks, ytCache, msg, quotaConsulted,
                ops, chunker, race, celery>>

\* The start of a script run of app.py
InitializeSessionState ==
    /\ auth' = initialize_session_state(auth)
    /\ op' = "initialize_session_state"
    /\ ret' = [result |-> TRUE, reason |-> ""]
    /\ UNCHANGED users
    /\ AuthFrame

LoginUser ==
    \E username \in Usernames \cup {""}, password \in Passwords \cup {""} :
    LET o == login_user(auth, users, username, password) IN
    /\ auth' = o.auth
    /\ users' = o.users
    /\ op' = "login_user"
    /\ ret' = [result |-> o.result, reason |-> ""]
    /\ AuthFrame

LogoutUser ==
    /\ auth' = logout_user(auth)
    /\ op' = "logout_user"
    /\ ret' = [result |-> TRUE, reason |-> ""]
    /\ UNCHANGED users
    /\ AuthFrame

\* decodable: the token's signature is the one the decoding process makes
RefreshSession ==
    \E decodable \in BOOLEAN :
    /\ auth' = refresh_session_if_needed(auth, decodable)
    /\ op' = "refresh_session_if_needed"
    /\ ret' = [result |-> check_auth_token_validity(auth, decodable), reason |-> ""]
    /\ UNCHANGED users
    /\ AuthFrame

RegisterUser ==
    \E email \in Emails \cup {""}, username \in Usernames \cup {""},
       first_name \in FirstNames \cup {""},
       password \in Passwords \cup {""}, password_confirm \in Passwords \cup {""},
       salt \in Salts :
    LET o == register_user(users, email, username, first_name, password,
                           password_confirm, salt) IN
    /\ Len(users) < MaxUsers
    /\ users' = o.users
    /\ op' = "register_user"
    /\ ret' = [result |-> o.result, reason |-> o.reason]
    /\ UNCHANGED auth
    /\ AuthFrame

CreateAdminUser ==
    \E username \in Usernames, password \in Passwords, email \in Emails,
       salt \in Salts :
    LET o == create_admin_user(users, username, password, email, salt) IN
    /\ Len(users) < MaxUsers
    /\ users' = o.users
    /\ op' = "create_admin_user"
    /\ ret' = [result |-> o.result, reason |-> o.reason]
    /\ UNCHANGED auth
    /\ AuthFrame

\* "Mettre a jour le mot de passe" on the account page
ChangePasswordForm ==
    \E current_password \in Passwords \cup {""}, new_password \in Passwords \cup {""},
       confirm_password \in Passwords \cup {""}, salt \in Salts :
    /\ "authenticated" \in DOMAIN auth
    /\ auth["authenticated"]
    /\ op' = "change_password"
    /\ UNCHANGED auth
    /\ AuthFrame
    /\ IF current_password = "" \/ new_password = ""
          \/ new_password # confirm_password
       THEN /\ ret' = [result |-> FALSE, reason |-> "form"]
            /\ UNCHANGED users
       ELSE LET o == change_password(users, auth["user_id"], current_password,
                                     new_password, salt) IN
            /\ users' = o.users
            /\ ret' = [result |-> o.result,
                       reason |-> IF current_password = new_password
                                  THEN "same" ELSE "other"]

InitAuth ==
    /\ tz = 0
    /\ now = StartTime
    /\ subscriptions = <<>>
    /\ transcriptions = EmptyTable
    /\ activities = EmptyTable
    /\ st = InitialSession(NoUser)
    /\ storage = InitialStorage(FALSE)
    /\ engineCalls = NoCalls
    /\ tempFiles = 0
    /\ tasks = 0
    /\ ytCache = [u \in {} |-> ""]
    /\ op = "init"
    /\ msg = <<>>
    /\ ret = [result |-> TRUE, reason |-> ""]
    /\ quotaConsulted = FALSE
    /\ ops = 0
    /\ chunker = NoChunking
    /\ race = <<>>
    /\ celery = <<>>
    /\ users = <<>>
    /\ auth = [k \in {} |-> FALSE]

NextAuth ==
    \/ InitializeSessionState
    \/ LoginUser
    \/ LogoutUser
    \/ RefreshSession
    \/ RegisterUser
    \/ CreateAdminUser
    \/ ChangePasswordForm
    \/ Tick

SpecAuth == InitAuth /\ [][NextAuth]_vars

---------------------------------------------------------------------------
(* Properties *)

\* The subscriptions rows the query of get_user_plan selects from.
ActiveRows(u) ==
    {i \in 1..Len(subscriptions) :
        subscriptions[i].user_id = u /\ subscriptions[i].active}

\* C1: check_transcription_quota(user) is true exactly when the rows counted
\* for the period number strictly fewer than the plan's transcription_minutes:
\* true with no row counted and with limit - 1 rows, false with limit rows or
\* more, for every plan.
C1_QuotaIffUsageBelowLimit ==
    op = "check_transcription_quota" =>
        LET usage == get_transcription_usage(ret.user_id)
            limit == get_user_plan(ret.user_id).transcription_minutes
        IN  /\ ret.quota = (usage < limit)
            /\ usage = 0 => ret.quota = TRUE
            /\ usage = limit - 1 => ret.quota = TRUE
            /\ usage >= limit => ret.quota = FALSE

\* A call that found exactly limit rows counted and refused.
C1_Witness ==
    /\ op = "check_transcription_quota"
    /\ get_transcription_usage(ret.user_id)
           = get_user_plan(ret.user_id).transcription_minutes
    /\ ret.quota = FALSE

\* C2: get_user_plan always returns a plan of the catalog: the free plan for
\* a user without active subscription or whose active subscriptions name no
\* plan of the catalog, and the plan named when the user's active
\* subscriptions name one plan of the catalog.
C2_PlanOrFreeFallback ==
    op = "get_user_plan" =>
        LET active == ActiveRows(ret.user_id) IN
        /\ ret.plan \in {PLANS[p] : p \in DOMAIN PLANS}
        /\ active = {} => ret.plan = PLANS["free"]
        /\ (\A i \in active : subscriptions[i].plan \notin DOMAIN PLANS)
              => ret.plan = PLANS["free"]
        /\ \A p \in DOMAIN PLANS :
              (active # {} /\ \A i \in active : subscriptions[i].plan = p)
                 => ret.plan = PLANS[p]

\* A call for a user whose only active subscription names a plan outside the
\* catalog, answered with the free plan.
C2_Witness ==
    /\ op = "get_user_plan"
    /\ ActiveRows(ret.user_id) # {}
    /\ \A i \in ActiveRows(ret.user_id) : subscriptions[i].plan = "enterprise"
    /\ ret.plan = PLANS["free"]

Limit(u) == get_user_plan(u).transcription_minutes
HandlerRan(names) == ops' = ops + 1 /\ op' \in names
TranscriptionHandlers == {"transcribe_button", "mic_recording"}

\* C3: when the session user's counted transcriptions have reached the plan
\* limit, the transcription button and the microphone path both stop at the
\* quota message: Whisper is not called, no Transcription row is inserted and
\* no activity is logged.
C3_QuotaShortCircuit ==
    [][(/\ HandlerRan(TranscriptionHandlers)
        /\ st.user_id # NoUser
        /\ get_transcription_usage(st.user_id) >= Limit(st.user_id))
       => (/\ InSeq(MsgQuota, msg')
           /\ engineCalls'["whisper"] = 0
           /\ transcriptions' = transcriptions
           /\ activities' = activities)]_vars

\* A microphone recording refused for a user who stands at the limit.
C3_Witness ==
    /\ op = "mic_recording"
    /\ InSeq(MsgQuota, msg)
    /\ get_transcription_usage(st.user_id) = Limit(st.user_id)
    /\ engineCalls["whisper"] = 0

\* C4: an upload larger than the plan's max_file_size_mb that is submitted
\* with the transcription button is rejected before anything is done: no
\* temporary file, no Whisper call, no Transcription row, no activity.
C4_OversizeUploadRejected ==
    [][(/\ HandlerRan({"transcribe_button"})
        /\ st.server_audio_path_for_transcription = NoAudio
        /\ InSeq(MsgSizeWarning, msg'))
       => (/\ tempFiles' = 0
           /\ engineCalls'["whisper"] = 0
           /\ transcriptions' = transcriptions
           /\ activities' = activities)]_vars

EngineMessage ==
    [ssl_error |-> MsgSSL, file_not_found |-> MsgFileNotFound,
     exception |-> MsgLocalError]

\* What an outcome o of a transcription function leaves as it was.
NothingPersisted(o) ==
    /\ o.transcriptions = transcriptions
    /\ o.activities = activities
    /\ o.storage = storage
    /\ o.st.transcribed_text = st.transcribed_text
    /\ o.st.segments = st.segments

\* C5: in every reachable state, a synchronous transcription function whose
\* Whisper call fails (SSL error, missing file, any other exception) returns
\* failure with the engine's message and persists nothing: no Transcription
\* row, no activity, nothing in the object store, transcribed_text and
\* segments as before, whatever the stores would have answered.  (Whisper
\* returns no text when it raises: heard plays no part.)
C5_EngineFailurePersistsNothing ==
    \A outcome \in EngineOutcomes \ {"ok"}, whisper_model \in WhisperModels,
       audio_put_ok, text_put_ok, db_ok, log_ok \in BOOLEAN :
        LET heard == ShortText IN
        /\ \A audio_size \in (AudioSizes \cup MicSizes) \ {0} :
              LET o == process_transcription_sync(
                           st, audio_size, whisper_model, outcome, heard,
                           audio_put_ok, text_put_ok, db_ok, log_ok)
              IN  /\ o.success = FALSE
                  /\ o.message = EngineMessage[outcome]
                  /\ NothingPersisted(o)
        /\ LET o == process_file_transcription_sync(
                        st, whisper_model, outcome, heard, text_put_ok, db_ok, log_ok)
           IN  /\ o.success = FALSE
               /\ o.message = EngineMessage[outcome]
               /\ NothingPersisted(o)

\* The button pressed after an earlier transcription, Whisper failing on SSL:
\* the failure is reported and the earlier text is still in the session.
C5_Witness ==
    /\ op = "transcribe_button"
    /\ InSeq(MsgSSL, msg)
    /\ ret = [success |-> FALSE]
    /\ engineCalls["whisper"] = 1
    /\ st.transcribed_text # ""

AccountingTime(t) == t + tz
current_period_start == AccountingTime(now) - (AccountingTime(now) % MonthLen)

\* C7: get_transcription_usage counts exactly the user's Transcription rows
\* created at or after the first instant of the current month of the
\* accounting clock: no earlier row, no row of another user.
C7_UsageCountsPeriodRows ==
    \A u \in Users :
        get_transcription_usage(u) =
            CountRows(transcriptions,
                      {r \in DOMAIN transcriptions :
                           /\ r.user_id = u
                           /\ AccountingTime(r.created_at) >= current_period_start})

\* C8: a rejected activity insert is not fatal.  log_user_activity then adds
\* no row and returns False; and a synchronous transcription whose Whisper
\* call and Transcription insert succeeded keeps the inserted row and the
\* session's transcribed_text and segments although its log write failed.
C8_LogFailureNotFatal ==
    /\ \A u \in Users, t \in ActivityTypes :
          log_user_activity(activities, u, t, FALSE)
              = [table |-> activities, ret |-> FALSE]
    /\ \A whisper_model \in WhisperModels, heard \in WhisperTexts,
          audio_put_ok, text_put_ok \in BOOLEAN :
          LET row == TranscriptionRow(st.user_id, whisper_model, heard)
              kept(o) == /\ o.activities = activities
                         /\ o.transcriptions = AddRow(transcriptions, row)
                         /\ o.st.transcribed_text = heard
                         /\ o.st.segments = SegmentsOf(heard)
          IN  /\ \A audio_size \in (AudioSizes \cup MicSizes) \ {0} :
                    kept(process_transcription_sync(
                             st, audio_size, whisper_model, "ok", heard,
                             audio_put_ok, text_put_ok, TRUE, FALSE))
              /\ kept(process_file_transcription_sync(
                          st, whisper_model, "ok", heard, text_put_ok, TRUE, FALSE))

\* A transcription that succeeded while the activity insert was rejected:
\* the row and the text are there, the activity table is empty.
C8_Witness ==
    /\ op = "transcribe_button"
    /\ InSeq(MsgDone, msg)
    /\ ret = [success |-> TRUE]
    /\ activities = EmptyTable
    /\ st.transcribed_text = LongText
    /\ \E r \in DOMAIN transcriptions : r.text = LongText

\* C9: no script run calls an external engine without having consulted the
\* quota first.
C9_EngineCallsFollowQuotaCheck ==
    (\E e \in Engines : engineCalls[e] > 0) => quotaConsulted

\* C10: when the OpenAI request fails, run_gpt_keywords and run_gpt_question
\* return False, show an error and leave keywords_result and answer_result as
\* they were.
C10_GptFailureLeavesResults ==
    st.transcribed_text # "" =>
        LET k == run_gpt_keywords(st, "sk-key", "error")
            q == run_gpt_question(st, "question", "sk-key", "error")
        IN  /\ k.success = FALSE
            /\ k.shown # <<>>
            /\ k.st.keywords_result = st.keywords_result
            /\ q.success = FALSE
            /\ q.shown # <<>>
            /\ q.st.answer_result = st.answer_result

\* Rows of table activities with the given category.
ActivityCount(table, activity_type) ==
    CountRows(table, {r \in DOMAIN table : r.activity_type = activity_type})

\* The run just made downloaded url with yt-dlp and the download failed.
DownloadJustFailed ==
    /\ HandlerRan({"do_download_youtube"})
    /\ engineCalls'["yt_dlp"] = 1
    /\ \E u \in DOMAIN ytCache' \ DOMAIN ytCache : ytCache'[u] # "bytes"

\* C11: when the yt-dlp download or conversion fails, download_youtube_audio
\* returns a string beginning with "ERROR" and do_download_youtube takes its
\* error branch: no youtube_extraction activity is appended and the success
\* message with the audio download is not shown; a run of do_download_youtube
\* appends at most one youtube_extraction activity.
C11_FailedDownloadTakesErrorBranch ==
    [][/\ DownloadJustFailed =>
            /\ StartsWithERROR(download_youtube_audio("failure"))
            /\ activities' = activities
            /\ ~InSeq(MsgExtracted, msg')
       /\ HandlerRan({"do_download_youtube"}) =>
            ActivityCount(activities', "youtube_extraction")
              - ActivityCount(activities, "youtube_extraction") \in {0, 1}]_vars

\* C12: one action makes exactly one engine call: a run of run_gpt_summary
\* issues exactly one OpenAI chat request whatever the length of the
\* transcribed text, and a transcription action that completes has issued
\* exactly one Whisper call (none makes more than one).
C12_OneEngineCallPerAction ==
    [][/\ HandlerRan({"run_gpt_summary"}) => engineCalls'["openai_chat"] = 1
       /\ HandlerRan(TranscriptionHandlers) =>
            /\ engineCalls'["whisper"] \in {0, 1}
            /\ InSeq(MsgDone, msg') => engineCalls'["whisper"] = 1]_vars

\* What a successful synchronous transcription has to leave: one more
\* Transcription row, of the session's user with the model and the text, and
\* one more activity, of category transcription.
OneRowOneActivity(o, whisper_model, heard) ==
    /\ o.success = TRUE
    /\ NumRows(o.transcriptions) = NumRows(transcriptions) + 1
    /\ o.transcriptions =
          AddRow(transcriptions, TranscriptionRow(st.user_id, whisper_model, heard))
    /\ NumRows(o.activities) = NumRows(activities) + 1
    /\ ActivityCount(o.activities, "transcription")
          = ActivityCount(activities, "transcription") + 1
    /\ \E r \in DOMAIN o.activities :
          /\ r.user_id = st.user_id
          /\ r.activity_type = "transcription"
          /\ o.activities = AddRow(activities, r)

\* C13: in every reachable state, a synchronous transcription function whose
\* Whisper call succeeds, the database accepting both inserts, adds exactly
\* one Transcription row for the session's user, with the model used and the
\* engine's text, and exactly one activity of category transcription,
\* whether or not the object store took the audio and the text.
C13_SuccessAddsOneRowOneActivity ==
    \A whisper_model \in WhisperModels, heard \in WhisperTexts,
       audio_put_ok, text_put_ok \in BOOLEAN :
        /\ \A audio_size \in (AudioSizes \cup MicSizes) \ {0} :
              OneRowOneActivity(
                  process_transcription_sync(st, audio_size, whisper_model, "ok",
                      heard, audio_put_ok, text_put_ok, TRUE, TRUE),
                  whisper_model, heard)
        /\ OneRowOneActivity(
              process_file_transcription_sync(st, whisper_model, "ok", heard,
                  text_put_ok, TRUE, TRUE),
              whisper_model, heard)

\* A second transcription of the month went through: its row and its
\* activity are there beside those of the first.
C13_Witness ==
    /\ op \in TranscriptionHandlers
    /\ ops = 2
    /\ InSeq(MsgDone, msg)
    /\ ret = [success |-> TRUE]
    /\ ActivityCount(activities, "transcription") = 2
    /\ \E r \in DOMAIN transcriptions :
          r.user_id = st.user_id /\ r.text = LongText /\ transcriptions[r] = 2

\* C14: a metered handler whose engine call succeeded appends one activity
\* of its own category: youtube_extraction after a YouTube download,
\* video_extraction after a video-file extraction, tts_generation after a
\* text-to-speech generation.  (log_user_activity is best effort: the store
\* may refuse the row, which is a failure of the store and not of the
\* handler, so only the extraction and the generation, which never reach
\* log_user_activity, are held to it here.)
C14_MeteredHandlersLog ==
    [][/\ (HandlerRan({"extract_audio_with_progress"}) /\ InSeq(MsgVideoDone, msg'))
            => ActivityCount(activities', "video_extraction")
                 = ActivityCount(activities, "video_extraction") + 1
       /\ (HandlerRan({"generate_audio_from_text"}) /\ ret' = [success |-> TRUE])
            => ActivityCount(activities', "tts_generation")
                 = ActivityCount(activities, "tts_generation") + 1]_vars

\* The plan of the catalog that applies to u: the one the first active
\* subscription names, the free plan without one or for an unknown name.
PlanNameOf(u) ==
    LET active == ActiveRows(u)
        first == CHOOSE i \in active : \A j \in active : i <= j
    IN  IF active = {} THEN "free"
        ELSE IF subscriptions[first].plan \in DOMAIN PLANS
        THEN subscriptions[first].plan
        ELSE "free"

\* C15: check_file_size_limit(user, size_mb) is true exactly when size_mb is
\* at most the max_file_size_mb of the user's plan: a file exactly at the cap
\* is allowed and the least size above the cap is refused, for the free,
\* standard and premium plans and for the free fallback.
C15_FileSizeAtMostCap ==
    op = "check_file_size_limit" =>
        LET cap == PLANS[PlanNameOf(ret.user_id)].max_file_size_mb IN
        /\ ret.allowed = (ret.file_size_mb <= cap)
        /\ ret.file_size_mb = cap => ret.allowed = TRUE
        /\ ret.file_size_mb = cap + 1 => ret.allowed = FALSE

\* A file of exactly 200 MB allowed to a user of the standard plan.
C15_Witness ==
    /\ op = "check_file_size_limit"
    /\ PlanNameOf(ret.user_id) = "standard"
    /\ ret.file_size_mb = PLANS["standard"].max_file_size_mb
    /\ ret.allowed = TRUE

ModelSet(plan) == {plan.models[i] : i \in 1..Len(plan.models)}

\* C16: check_model_access(user, tier) is true exactly when the tier is,
\* letter for letter, one of the models of the user's plan; and the models of
\* the free plan are among those of the standard plan, which are among those
\* of the premium plan.
C16_ModelAccessIsMembership ==
    /\ ModelSet(PLANS["free"]) \subseteq ModelSet(PLANS["standard"])
    /\ ModelSet(PLANS["standard"]) \subseteq ModelSet(PLANS["premium"])
    /\ op = "check_model_access" =>
          /\ ret.allowed = (ret.model \in ModelSet(PLANS[PlanNameOf(ret.user_id)]))
          /\ ret.model \in {"Base", "turbo"} => ret.allowed = FALSE

\* "Base" refused to a user of the premium plan, whose models hold "base".
C16_Witness ==
    /\ op = "check_model_access"
    /\ PlanNameOf(ret.user_id) = "premium"
    /\ ret.model = "Base"
    /\ ret.allowed = FALSE

ValidationMessages == {MsgNoAudio, MsgNoAudioData, MsgNoAudioFile}
QuotaMessages == {MsgQuota}
EngineMessages == {EngineMessage[o] : o \in DOMAIN EngineMessage}

\* C17: the transcription handler words its failures by category: the
\* messages for missing audio, for the exhausted quota and for a failed
\* Whisper call are pairwise different, the quota message is shown exactly
\* when the quota check refused, an engine message exactly when the Whisper
\* call failed, a missing-audio message only when neither happened, and no
\* run shows messages of two categories.
C17_FailureMessagesTellBranch ==
    [][HandlerRan(TranscriptionHandlers) =>
          LET quota_refused == ~check_transcription_quota(st.user_id)
              engine_failed == /\ engineCalls'["whisper"] = 1
                               /\ ret' = [success |-> FALSE]
              Shown(messages) == \E m \in messages : InSeq(m, msg')
          IN  /\ ValidationMessages \cap QuotaMessages = {}
              /\ ValidationMessages \cap EngineMessages = {}
              /\ QuotaMessages \cap EngineMessages = {}
              /\ Shown(QuotaMessages) <=> quota_refused
              /\ Shown(EngineMessages) <=> engine_failed
              /\ Shown(ValidationMessages) => ~quota_refused /\ ~engine_failed
              /\ ~(Shown(QuotaMessages) /\ Shown(EngineMessages))
              /\ ~(Shown(QuotaMessages) /\ Shown(ValidationMessages))
              /\ ~(Shown(EngineMessages) /\ Shown(ValidationMessages))]_vars

\* The button pressed on an empty upload, the quota not yet reached: the
\* missing-audio message and nothing of the other categories.
C17_Witness ==
    /\ op = "transcribe_button"
    /\ quotaConsulted
    /\ InSeq(MsgNoAudio, msg)
    /\ ~InSeq(MsgQuota, msg)
    /\ engineCalls["whisper"] = 0

\* C18: in every reachable state of a storage manager that is using MinIO,
\* a save_transcription whose put fails writes the text to the local
\* directory, returns the reference under "transcriptions" and not None, and
\* leaves the manager in local mode.
C18_PutFailureFallsBackToLocal ==
    storage.use_minio =>
        LET saved == save_transcription(storage, FALSE) IN
        /\ saved.ref = "transcriptions"
        /\ saved.s.local = storage.local + 1
        /\ saved.s.minio = storage.minio
        /\ saved.s.use_minio = FALSE

\* C19: a call of chunk_text with max_chars zero or negative ends by raising
\* ValueError, whatever the text: it does not return a list and it does not
\* loop for ever.
C19_NonPositiveMaxCharsRaises ==
    [](chunker.max_chars <= 0 => <>(chunker.pc = "ValueError"))

RECURSIVE Concat(_)
Concat(seqs) == IF seqs = <<>> THEN <<>> ELSE Head(seqs) \o Concat(Tail(seqs))

\* The chunks cut the text into pieces of max_chars characters, in order.
Partitions(chunks, text, max_chars) ==
    /\ Concat(chunks) = text
    /\ \A i \in 1..Len(chunks) : chunks[i] # <<>>
    /\ \A i \in 1..(Len(chunks) - 1) : Len(chunks[i]) = max_chars
    /\ chunks # <<>> => Len(chunks[Len(chunks)]) <= max_chars
    /\ Len(chunks) = (Len(text) + max_chars - 1) \div max_chars
    /\ text = <<>> => chunks = <<>>

\* C20: for every text and every max_chars >= 1, chunk_text returns, and the
\* chunks it returns joined in order are the text, none is empty, all but the
\* last have max_chars characters and the last at most max_chars, there are
\* ceil(len(text) / max_chars) of them, and none for the empty text.
C20_ChunksPartitionText ==
    /\ [](chunker.max_chars >= 1 => <>(chunker.pc = "return"))
    /\ []((chunker.max_chars >= 1 /\ chunker.pc = "return")
            => Partitions(chunker.chunks, chunker.text, chunker.max_chars))

\* A text of four characters returned in two chunks, of three and of one.
C20_Witness ==
    /\ chunker.pc = "return"
    /\ chunker.max_chars = 3
    /\ Len(chunker.text) = 4
    /\ Len(chunker.chunks) = 2
    /\ Len(chunker.chunks[2]) = 1

\* Position in the segment list of the first segment of chapter c.
RECURSIVE FirstSegmentOf(_, _)
FirstSegmentOf(chapters, c) ==
    IF c = 1 THEN 1
    ELSE FirstSegmentOf(chapters, c - 1) + Len(chapters[c - 1].texts)

\* The start time of chapter c: 0 for the first, then the start of the
\* chapter's first segment.
ChapterStart(segments, chapters, c) ==
    IF c = 1 THEN 0 ELSE segments[FirstSegmentOf(chapters, c)].start

\* C21: create_chapters_from_segments returns no chapter for no segment;
\* otherwise the chapters are numbered 1, 2, ... and hold, joined in order,
\* the texts of the segments, each once; a segment opens a chapter exactly
\* when it starts chunk_duration or more after the start time of the chapter
\* before it (that chapter holding a segment already); and if every segment
\* starts chunk_duration or more after the one before it, there are as many
\* chapters as segments.
C21_ChaptersPartitionSegments ==
    op = "create_chapters_from_segments" =>
        LET segments == ret.segments
            chapters == ret.chapters
            d == ret.chunk_duration
            first(c) == FirstSegmentOf(chapters, c)
            start(c) == ChapterStart(segments, chapters, c)
        IN  /\ segments = <<>> => chapters = <<>>
            /\ segments # <<>> => chapters # <<>>
            /\ \A c \in 1..Len(chapters) :
                   /\ chapters[c].index = c
                   /\ chapters[c].texts # <<>>
                   /\ chapters[c].min = start(c) \div 60
                   /\ chapters[c].sec = start(c) % 60
            /\ Concat([c \in 1..Len(chapters) |-> chapters[c].texts])
                  = [i \in 1..Len(segments) |-> segments[i].text]
            /\ \A c \in 1..Len(chapters) :
                   /\ c > 1 => segments[first(c)].start - start(c - 1) >= d
                   /\ \A k \in (first(c) + 1)..(first(c) + Len(chapters[c].texts) - 1) :
                          segments[k].start - start(c) < d
            /\ (\A i \in 2..Len(segments) :
                    segments[i].start - segments[i - 1].start >= d)
                  => Len(chapters) = Len(segments)

\* Three segments 30 seconds apart cut every 30 seconds: three chapters.
C21_Witness ==
    /\ op = "create_chapters_from_segments"
    /\ ret.chunk_duration = 30
    /\ Len(ret.segments) = 3
    /\ ret.segments[1].start = 0
    /\ ret.segments[2].start = 30
    /\ ret.segments[3].start = 60
    /\ Len(ret.chapters) = 3

\* C22: extract_keywords called with the empty text raises ValueError and
\* sends no chat request; called with a text it makes one gpt_request and
\* returns what that request returns.
C22_KeywordsEmptyTextRaises ==
    op = "extract_keywords" =>
        /\ ret.text = "" => ret.raised = "ValueError" /\ ret.calls = 0
        /\ ret.text # "" =>
              /\ ret.raised = None
              /\ ret.returned = gpt_request(ret.api_key, ret.outcome).text
              /\ ret.calls = gpt_request(ret.api_key, ret.outcome).calls

\* C23: with two sessions of the same user running the transcription
\* handler at once, their quota checks and inserts interleaved in any order,
\* the user's Transcription rows of the current period never number more
\* than the plan's transcription_minutes.
C23_ConcurrentSessionsKeepQuota ==
    get_transcription_usage(st.user_id) <= Limit(st.user_id)


\* The session the script run of a step started with holds a task id, and
\* the status the poll of that id returns.
PolledStatus == check_transcription_status(celery, st.transcription_task_id).status
PageOps == {"render", "clear_task", "async_button", "file_async_button"}

\* C24: a stored task id stays in the session on every render that polls
\* PENDING or STARTED; the render that polls SUCCESS makes transcribed_text
\* the task's result text and removes the id, so that later renders apply
\* nothing; on FAILURE the id stays and transcribed_text is unchanged until
\* "Effacer la tache" removes the id; the worker never touches the session.
C24_PollingFollowsLifecycle ==
    [][/\ (op' = "render" /\ st.transcription_task_id = None) => st' = st
       /\ (op' = "render" /\ st.transcription_task_id # None
             /\ PolledStatus \in {"PENDING", "STARTED", "FAILURE"}) => st' = st
       /\ (op' = "render" /\ st.transcription_task_id # None
             /\ PolledStatus = "SUCCESS") =>
               /\ st'.transcription_task_id = None
               /\ st'.transcribed_text =
                     celery[st.transcription_task_id].result.text
       /\ (op' = "clear_task") =>
               /\ PolledStatus = "FAILURE"
               /\ st'.transcription_task_id = None
               /\ st'.transcribed_text = st.transcribed_text
       /\ (op' \in PageOps /\ st.transcription_task_id # None
             /\ st'.transcription_task_id = None) =>
               \/ op' = "clear_task"
               \/ PolledStatus = "SUCCESS"
                  /\ st'.transcribed_text =
                        celery[st.transcription_task_id].result.text
       /\ (op' = "worker") => st' = st
      ]_vars

\* A render has applied the result of a finished task and dropped its id.
C24_Witness ==
    /\ op = "render"
    /\ ret.status = "SUCCESS"
    /\ st.transcription_task_id = None
    /\ ret.task_id \in DOMAIN celery
    /\ st.transcribed_text = celery[ret.task_id].result.text
    /\ st.transcribed_text # ""

\* C25: once process_file_transcription_async has stored its task id, the
\* polls of that id do not stay PENDING forever: a poll eventually observes
\* SUCCESS or FAILURE for it, unless the session stops holding that id.
C25_FileTaskEventuallyFinishes ==
    (st.transcription_task_id = LocalTaskId) ~>
        \/ st.transcription_task_id # LocalTaskId
        \/ ret.task_id = LocalTaskId /\ ret.status \in {"SUCCESS", "FAILURE"}

C29_RowsCarryPlanModels ==
    \A r \in DOMAIN transcriptions :
        (transcriptions[r] > 0 /\ r.user_id = st.user_id)
            => check_model_access(r.user_id, r.model_used)

Authenticated(session) ==
    "authenticated" \in DOMAIN session /\ session["authenticated"]
LoggedOut(session) == DOMAIN session \cap SessionKeys = {}
AuthStep(name) == op' = name /\ now' = now

\* C27: an authenticated session holds the token, user_id, username and
\* is_admin of the user who logged in; a failed login leaves the session as
\* it was; after logout_user, and after refresh_session_if_needed with a
\* missing, undecodable or expired token, none of the session keys remain
\* and the session is not authenticated.
C27_SessionKeysFollowLogin ==
    /\ [](Authenticated(auth) =>
            /\ {"token", "user_id", "username", "is_admin"} \subseteq DOMAIN auth
            /\ ById(users, auth["user_id"]) # 0
            /\ users[ById(users, auth["user_id"])].username = auth["username"]
            /\ users[ById(users, auth["user_id"])].is_admin = auth["is_admin"]
            /\ auth["token"].sub = auth["username"])
    /\ [][/\ (AuthStep("login_user") /\ ~ret'.result) => auth' = auth
          /\ AuthStep("logout_user") =>
                (LoggedOut(auth') /\ ~Authenticated(auth'))
          /\ AuthStep("refresh_session_if_needed") =>
                /\ ("token" \notin DOMAIN auth) => ~ret'.result
                /\ ("token" \in DOMAIN auth /\ auth["token"].exp <= now)
                      => ~ret'.result
                /\ ~ret'.result => (LoggedOut(auth') /\ ~Authenticated(auth'))
         ]_vars

\* refresh_session_if_needed has just removed the keys of a session, after
\* a user had logged in and the clock had moved on.
C27_Witness ==
    /\ op = "refresh_session_if_needed"
    /\ ~ret.result
    /\ LoggedOut(auth)
    /\ \E i \in 1..Len(users) : users[i].last_login # NoLogin
    /\ now > StartTime

UniqueUsers(table) ==
    \A i, j \in 1..Len(table) :
        i # j => /\ table[i].username # table[j].username
                 /\ table[i].email # table[j].email

\* C28: no two User rows share a username or an email, and a registration
\* with a missing required field, a differing confirmation or an existing
\* username or email is rejected and leaves the users table unchanged.
C28_UsersStayUnique ==
    /\ UniqueUsers(users)
    /\ \A email \in Emails \cup {""}, username \in Usernames \cup {""},
          first_name \in FirstNames \cup {""},
          password \in Passwords \cup {""},
          password_confirm \in Passwords \cup {""}, salt \in Salts :
          LET o == register_user(users, email, username, first_name, password,
                                 password_confirm, salt)
          IN  (\/ "" \in {email, username, first_name, password, password_confirm}
               \/ password # password_confirm
               \/ \E i \in 1..Len(users) :
                     users[i].username = username \/ users[i].email = email)
                  => (o.users = users /\ ~o.result)

\* A registration was rejected for a name or an email that an admin created
\* by the script already has.
C28_Witness ==
    /\ op = "register_user"
    /\ ret.reason = "exists"
    /\ \E i \in 1..Len(users) : users[i].is_admin

\* What C30 says of one call of change_password; strict: the old password
\* must stop verifying even when it is the new password.
ChangePasswordHolds(user_id, current_password, new_password, salt, strict) ==
    LET o == change_password(users, user_id, current_password, new_password, salt)
        i == ById(users, user_id)
        verifies == i # 0 /\ verify_password(current_password,
                                             users[i].hashed_password)
    IN  /\ Len(o.users) = Len(users)
        /\ o.users # users => verifies
        /\ ~verifies => (~o.result /\ o.users = users)
        /\ \A j \in 1..Len(users) : j # i => o.users[j] = users[j]
        /\ o.result =>
              /\ verify_password(new_password, o.users[i].hashed_password)
              /\ (strict \/ current_password # new_password) =>
                    ~verify_password(current_password, o.users[i].hashed_password)
        /\ (i # 0 /\ o.users[i] # users[i]) =>
              o.users[i] = [users[i] EXCEPT
                              !.hashed_password = o.users[i].hashed_password]

\* C30: change_password changes the hash only of an existing user whose
\* current password verifies, returns False and changes nothing otherwise,
\* never touches another user's row, and after a success the new password
\* verifies and the old one does not.
C30_ChangePasswordReplacesHash ==
    \A user_id \in 0..MaxUsers, current_password \in Passwords \cup {""},
       new_password \in Passwords \cup {""}, salt \in Salts :
       ChangePasswordHolds(user_id, current_password, new_password, salt, TRUE)

\* C30, amended: ... and the old password does not verify any more unless
\* it was given as the new password as well.
C30_ChangePasswordReplacesHashUnlessSame ==
    \A user_id \in 0..MaxUsers, current_password \in Passwords \cup {""},
       new_password \in Passwords \cup {""}, salt \in Salts :
       ChangePasswordHolds(user_id, current_password, new_password, salt, FALSE)

\* The account page has just changed the session user's password to
\* another one, with one more user in the table.
C30_Witness ==
    /\ op = "change_password"
    /\ ret.result
    /\ ret.reason = "other"
    /\ Len(users) = 2

=============================================================================
